---- MODULE Spec2Model ----
(***************************************************************************)
(* Retrieval-and-evidence-linking core of the compliance chatbot:         *)
(*   - llm_client.embed_text, llm_client.file_sha1                        *)
(*   - retriever_compliance: _chunk_policy, build_index, _load_index,     *)
(*     retrieve_relevant                                                   *)
(* Texts are sequences of one-character strings.  Scores are IEEE-754     *)
(* binary64 values, computed with the rounding of the hardware.           *)
(***************************************************************************)
EXTENDS Integers, Sequences, FiniteSets, TLC

(***************************************************************************)
(* Bounds of the model                                                     *)
(***************************************************************************)
\* chunk_size of _chunk_policy (1000 in the source), scaled to the
\* documents of the model so that a document spans several chunks
ChunkSize == 11
\* largest k passed to retrieve_relevant
MaxK == 3
\* index writes counted per quiet period before the counter saturates
MaxWrites == 2
\* calls per process and changes of the source in the concurrent specification
MaxCalls == 1
MaxEdits == 1
\* SpecChunk: the longest policy text and the largest chunk_size
MaxDocLen == 8
MaxChunkSize == 6
\* SpecEmbed: the longest text
MaxTextLen == 4
MaxLines == 2
MaxNoise == 1
MaxReplyLen == 3
MaxRows == 2
MaxChars == 2
MaxEmailLen == 7

(***************************************************************************)
(* Evaluation helpers                                                      *)
(***************************************************************************)
\* F applied to the value of x
Force(F(_), x) == CHOOSE r \in {F(v) : v \in {x}} : TRUE

\* Step applied n times to s, by halving
RECURSIVE Iterate(_, _, _)
Iterate(Step(_), s, n) ==
    IF n = 0 THEN s
    ELSE IF n = 1 THEN Step(s)
    ELSE Force(LAMBDA v : Iterate(Step, v, n - (n \div 2)), Iterate(Step, s, n \div 2))


Range(s) == {s[i] : i \in 1..Len(s)}
Min(a, b) == IF a <= b THEN a ELSE b
Max(a, b) == IF a >= b THEN a ELSE b

(***************************************************************************)
(* IEEE-754 binary64 arithmetic on non-negative values.  A mantissa is a   *)
(* little-endian tuple of four 15-bit limbs; a product has eight limbs.    *)
(***************************************************************************)
LimbBase == 32768
LimbBits == 15
MantBits == 53

Pow2Table == <<1, 2, 4, 8, 16, 32, 64, 128, 256, 512, 1024, 2048, 4096, 8192, 16384, 32768>>
Pow2(n) == Pow2Table[n + 1]

Limb(a, i) == IF i >= 1 /\ i <= Len(a) THEN a[i] ELSE 0

BigZero == <<0, 0, 0, 0>>
BigOne == <<1, 0, 0, 0>>
BigOfInt(n) == <<n % LimbBase, (n \div LimbBase) % LimbBase, n \div (LimbBase * LimbBase), 0>>
BigPow2(n) == LET f(i) == IF i = (n \div LimbBits) + 1 THEN Pow2(n % LimbBits) ELSE 0
              IN  <<f(1), f(2), f(3), f(4)>>

BigCmp(a, b) ==
    IF a[4] # b[4] THEN (IF a[4] > b[4] THEN 1 ELSE -1)
    ELSE IF a[3] # b[3] THEN (IF a[3] > b[3] THEN 1 ELSE -1)
    ELSE IF a[2] # b[2] THEN (IF a[2] > b[2] THEN 1 ELSE -1)
    ELSE IF a[1] # b[1] THEN (IF a[1] > b[1] THEN 1 ELSE -1)
    ELSE 0

\* a - b for a >= b
BigSub(a, b) ==
    LET d1 == a[1] - b[1]
        d2 == a[2] - b[2] - (IF d1 < 0 THEN 1 ELSE 0)
        d3 == a[3] - b[3] - (IF d2 < 0 THEN 1 ELSE 0)
        d4 == a[4] - b[4] - (IF d3 < 0 THEN 1 ELSE 0)
    IN  <<d1 % LimbBase, d2 % LimbBase, d3 % LimbBase, d4 % LimbBase>>

\* a + 1
BigInc(a) ==
    LET s1 == a[1] + 1
        s2 == a[2] + (s1 \div LimbBase)
        s3 == a[3] + (s2 \div LimbBase)
        s4 == a[4] + (s3 \div LimbBase)
    IN  <<s1 % LimbBase, s2 % LimbBase, s3 % LimbBase, s4 % LimbBase>>

\* 2 * a + bit
BigTwice(a, bit) ==
    << ((2 * a[1]) % LimbBase) + bit,
       ((2 * a[2]) % LimbBase) + (a[1] \div (LimbBase \div 2)),
       ((2 * a[3]) % LimbBase) + (a[2] \div (LimbBase \div 2)),
       ((2 * a[4]) % LimbBase) + (a[3] \div (LimbBase \div 2)) >>

\* a * b as eight limbs, column by column; a column holds at most four
\* limb products, split in two halves so that no sum exceeds 31 bits
BigMul(a, b) ==
    LET P(i, j) == Limb(a, i) * Limb(b, j)
        lo(k) == (P(1, k) % LimbBase) + (P(2, k - 1) % LimbBase)
                 + (P(3, k - 2) % LimbBase) + (P(4, k - 3) % LimbBase)
        hi(k) == (P(1, k) \div LimbBase) + (P(2, k - 1) \div LimbBase)
                 + (P(3, k - 2) \div LimbBase) + (P(4, k - 3) \div LimbBase)
        c1 == lo(1)
        c2 == lo(2) + hi(1) + (c1 \div LimbBase)
        c3 == lo(3) + hi(2) + (c2 \div LimbBase)
        c4 == lo(4) + hi(3) + (c3 \div LimbBase)
        c5 == lo(5) + hi(4) + (c4 \div LimbBase)
        c6 == lo(6) + hi(5) + (c5 \div LimbBase)
        c7 == lo(7) + hi(6) + (c6 \div LimbBase)
        c8 == lo(8) + hi(7) + (c7 \div LimbBase)
    IN  <<c1 % LimbBase, c2 % LimbBase, c3 % LimbBase, c4 % LimbBase,
          c5 % LimbBase, c6 % LimbBase, c7 % LimbBase, c8 % LimbBase>>

BigBit(a, n) == (Limb(a, (n \div LimbBits) + 1) \div Pow2(n % LimbBits)) % 2
\* some bit of a below position n is set
BigLowBits(a, n) ==
    \/ \E i \in 1..(n \div LimbBits) : a[i] # 0
    \/ Limb(a, (n \div LimbBits) + 1) % Pow2(n % LimbBits) # 0
\* a \div 2^n, four limbs
BigShr(a, n) ==
    LET q == n \div LimbBits
        r == n % LimbBits
        f(i) == (Limb(a, i + q) \div Pow2(r)) + ((Limb(a, i + q + 1) % Pow2(r)) * Pow2(LimbBits - r))
    IN  <<f(1), f(2), f(3), f(4)>>

RECURSIVE BitLen(_)
BitLen(n) == IF n = 0 THEN 0 ELSE 1 + BitLen(n \div 2)

\* binary64 value m * 2^e with 2^52 <= m < 2^53, or zero (m = 0)
FZero == [m |-> BigZero, e |-> 0]

\* round-to-nearest-even of (a + sticky-fraction) / 2^sh, value scaled by 2^e
FRound(a, sh, sticky, e) ==
    LET q     == BigShr(a, sh)
        guard == BigBit(a, sh - 1)
        rest  == sticky \/ BigLowBits(a, sh - 1)
        up    == guard = 1 /\ (rest \/ (q[1] % 2) = 1)
        r     == IF up THEN BigInc(q) ELSE q
    IN  IF r = BigPow2(MantBits)
        THEN [m |-> BigPow2(MantBits - 1), e |-> e + sh + 1]
        ELSE [m |-> r, e |-> e + sh]

\* (a * 2^n) mod 2^60, four limbs
BigShl(a, n) ==
    LET q == n \div LimbBits
        r == n % LimbBits
        f(i) == ((Limb(a, i - q) * Pow2(r)) % LimbBase) + (Limb(a, i - q - 1) \div Pow2(LimbBits - r))
    IN  <<f(1), f(2), f(3), f(4)>>

FOfInt(n) ==
    IF n = 0 THEN FZero
    ELSE [m |-> BigShl(BigOfInt(n), MantBits - BitLen(n)), e |-> BitLen(n) - MantBits]

\* digit-by-digit square root of n: one result bit per pair of radicand bits,
\* st.j the index of the next pair (negative: the pairs after the binary point)
SqrtStep(n, st) ==
    LET pair  == IF st.j >= 0 THEN (n \div (Pow2(st.j) * Pow2(st.j))) % 4 ELSE 0
        r4    == BigTwice(BigTwice(st.rem, pair \div 2), pair % 2)
        trial == BigTwice(BigTwice(st.root, 0), 1)
    IN  IF BigCmp(r4, trial) >= 0
        THEN [rem |-> BigSub(r4, trial), root |-> BigTwice(st.root, 1), j |-> st.j - 1]
        ELSE [rem |-> r4, root |-> BigTwice(st.root, 0), j |-> st.j - 1]

FSqrtValue(n) ==
    IF n = 0 THEN FZero
    ELSE LET j == (BitLen(n) - 1) \div 2
             s == Iterate(LAMBDA st : SqrtStep(n, st), [rem |-> BigZero, root |-> BigZero, j |-> j],
                          MantBits + 1)
         IN  FRound(s.root, 1, s.rem # BigZero, j - MantBits)
\* sqrt of the integer n, correctly rounded
FSqrt(n) == Force(LAMBDA v : FSqrtValue(v), n)

FMulValues(x, y) ==
    IF x.m = BigZero \/ y.m = BigZero THEN FZero
    ELSE LET p == BigMul(x.m, y.m)
         IN  IF BigBit(p, 2 * MantBits - 1) = 1
             THEN FRound(p, MantBits, FALSE, x.e + y.e)
             ELSE FRound(p, MantBits - 1, FALSE, x.e + y.e)
\* x * y, correctly rounded
FMul(x, y) == Force(LAMBDA xv : Force(LAMBDA yv : FMulValues(xv, yv), y), x)

\* one quotient bit of long division by d
DivStep(d, st) ==
    LET r2 == BigTwice(st.rem, 0)
    IN  IF BigCmp(r2, d) >= 0
        THEN [rem |-> BigSub(r2, d), quo |-> BigTwice(st.quo, 1)]
        ELSE [rem |-> r2, quo |-> BigTwice(st.quo, 0)]

FDivValues(x, y) ==
    IF x.m = BigZero THEN FZero
    ELSE LET ge == BigCmp(x.m, y.m) >= 0
             s0 == IF ge THEN [rem |-> BigSub(x.m, y.m), quo |-> BigOne]
                   ELSE [rem |-> x.m, quo |-> BigZero]
             s  == Iterate(LAMBDA st : DivStep(y.m, st), s0, MantBits + 1)
         IN  FRound(s.quo, IF ge THEN 2 ELSE 1, s.rem # BigZero, x.e - y.e - MantBits - 1)
\* x / y for y nonzero, correctly rounded
FDiv(x, y) == Force(LAMBDA xv : Force(LAMBDA yv : FDivValues(xv, yv), y), x)

FCmp(x, y) ==
    IF x.m = BigZero THEN (IF y.m = BigZero THEN 0 ELSE -1)
    ELSE IF y.m = BigZero THEN 1
    ELSE IF x.e > y.e THEN 1
    ELSE IF x.e < y.e THEN -1
    ELSE BigCmp(x.m, y.m)

(***************************************************************************)
(* Texts                                                                   *)
(***************************************************************************)
Whitespace == {" ", "\n"}
ParaSep == <<"\n", "\n">>

\* str.lower on one character
lower(c) ==
    CASE c = "A" -> "a" [] c = "B" -> "b" [] c = "C" -> "c" [] c = "D" -> "d"
         [] c = "E" -> "e" [] c = "F" -> "f" [] c = "G" -> "g" [] c = "H" ->
         "h" [] c = "I" -> "i" [] c = "J" -> "j" [] c = "K" -> "k" [] c = "L"
         -> "l" [] c = "M" -> "m" [] c = "N" -> "n" [] c = "O" -> "o" [] c =
         "P" -> "p" [] c = "Q" -> "q" [] c = "R" -> "r" [] c = "S" -> "s" [] c
         = "T" -> "t" [] c = "U" -> "u" [] c = "V" -> "v" [] c = "W" -> "w" []
         c = "X" -> "x" [] c = "Y" -> "y" [] c = "Z" -> "z"
      [] OTHER -> c

\* text.split("\n\n"): cut at each occurrence of the separator, left to right
RECURSIVE SplitFrom(_, _, _)
SplitFrom(text, start, i) ==
    IF i > Len(text) THEN <<SubSeq(text, start, Len(text))>>
    ELSE IF i < Len(text) /\ text[i] = "\n" /\ text[i + 1] = "\n"
         THEN <<SubSeq(text, start, i - 1)>> \o SplitFrom(text, i + 2, i + 2)
         ELSE SplitFrom(text, start, i + 1)
split_paragraphs(text) == SplitFrom(text, 1, 1)

\* str.strip()
RECURSIVE FirstInk(_, _)
FirstInk(text, i) ==
    IF i > Len(text) \/ text[i] \notin Whitespace THEN i ELSE FirstInk(text, i + 1)
RECURSIVE LastInk(_, _)
LastInk(text, i) ==
    IF i < 1 \/ text[i] \notin Whitespace THEN i ELSE LastInk(text, i - 1)
strip(text) == SubSeq(text, FirstInk(text, 1), LastInk(text, Len(text)))

\* text.lower().split(): the maximal runs of non-whitespace, lower-cased
RECURSIVE TokensFrom(_, _, _)
TokensFrom(text, i, tok) ==
    IF i > Len(text) THEN (IF tok = <<>> THEN <<>> ELSE <<tok>>)
    ELSE IF text[i] \in Whitespace
         THEN (IF tok = <<>> THEN <<>> ELSE <<tok>>) \o TokensFrom(text, i + 1, <<>>)
         ELSE TokensFrom(text, i + 1, Append(tok, lower(text[i])))
tokens(text) == TokensFrom(text, 1, <<>>)

(***************************************************************************)
(* llm_client: embed_text, file_sha1                                       *)
(***************************************************************************)
dim == 256

\* int(hashlib.sha1(tok).hexdigest(), 16) modulo 2^16
Sha1Low16(tok) ==
    CASE tok = <<"a">> -> 26552
      [] tok = <<"b">> -> 36760
      [] tok = <<"a", "a">> -> 64311
      [] tok = <<"a", "b">> -> 1244
      [] tok = <<"b", "a">> -> 14233
      [] tok = <<"b", "b">> -> 59602
      [] tok = <<"a", "a", "a">> -> 43029
      [] tok = <<"a", "a", "b">> -> 19107
      [] tok = <<"a", "b", "a">> -> 29589
      [] tok = <<"a", "b", "b">> -> 35534
      [] tok = <<"b", "a", "a">> -> 36781
      [] tok = <<"b", "a", "b">> -> 65494
      [] tok = <<"b", "b", "a">> -> 56320
      [] tok = <<"b", "b", "b">> -> 35090
      [] tok = <<"a", "a", "a", "a">> -> 3705
      [] tok = <<"a", "a", "a", "b">> -> 47058
      [] tok = <<"a", "a", "b", "a">> -> 21986
      [] tok = <<"a", "a", "b", "b">> -> 38486
      [] tok = <<"a", "b", "a", "a">> -> 688
      [] tok = <<"a", "b", "a", "b">> -> 5018
      [] tok = <<"a", "b", "b", "a">> -> 47769
      [] tok = <<"a", "b", "b", "b">> -> 30743
      [] tok = <<"b", "a", "a", "a">> -> 14418
      [] tok = <<"b", "a", "a", "b">> -> 33402
      [] tok = <<"b", "a", "b", "a">> -> 23193
      [] tok = <<"b", "a", "b", "b">> -> 43500
      [] tok = <<"b", "b", "a", "a">> -> 47641
      [] tok = <<"b", "b", "a", "b">> -> 32976
      [] tok = <<"b", "b", "b", "a">> -> 46781
      [] tok = <<"b", "b", "b", "b">> -> 41674
      [] tok = <<"a", "a", "a", "a", "a">> -> 16492
      [] tok = <<"a", "a", "a", "a", "b">> -> 21627
      [] tok = <<"a", "a", "a", "b", "a">> -> 2131
      [] tok = <<"a", "a", "a", "b", "b">> -> 41290
      [] tok = <<"a", "a", "b", "a", "a">> -> 14348
      [] tok = <<"a", "a", "b", "a", "b">> -> 1981
      [] tok = <<"a", "a", "b", "b", "a">> -> 31479
      [] tok = <<"a", "a", "b", "b", "b">> -> 53375
      [] tok = <<"a", "b", "a", "a", "a">> -> 44165
      [] tok = <<"a", "b", "a", "a", "b">> -> 58284
      [] tok = <<"a", "b", "a", "b", "a">> -> 44611
      [] tok = <<"a", "b", "a", "b", "b">> -> 12585
      [] tok = <<"a", "b", "b", "a", "a">> -> 33246
      [] tok = <<"a", "b", "b", "a", "b">> -> 25465
      [] tok = <<"a", "b", "b", "b", "a">> -> 50796
      [] tok = <<"a", "b", "b", "b", "b">> -> 3468
      [] tok = <<"b", "a", "a", "a", "a">> -> 57909
      [] tok = <<"b", "a", "a", "a", "b">> -> 41833
      [] tok = <<"b", "a", "a", "b", "a">> -> 11021
      [] tok = <<"b", "a", "a", "b", "b">> -> 3199
      [] tok = <<"b", "a", "b", "a", "a">> -> 17017
      [] tok = <<"b", "a", "b", "a", "b">> -> 32603
      [] tok = <<"b", "a", "b", "b", "a">> -> 15876
      [] tok = <<"b", "a", "b", "b", "b">> -> 8291
      [] tok = <<"b", "b", "a", "a", "a">> -> 60202
      [] tok = <<"b", "b", "a", "a", "b">> -> 5863
      [] tok = <<"b", "b", "a", "b", "a">> -> 40887
      [] tok = <<"b", "b", "a", "b", "b">> -> 37724
      [] tok = <<"b", "b", "b", "a", "a">> -> 331
      [] tok = <<"b", "b", "b", "a", "b">> -> 9921
      [] tok = <<"b", "b", "b", "b", "a">> -> 7853
      [] tok = <<"b", "b", "b", "b", "b">> -> 15955

\* variant of CountTokens: a bucket that is hit is set to 1
CountTokensSet(toks, i, vec) ==
    [b \in 1..dim |->
        IF \E j \in i..Len(toks) : (Sha1Low16(toks[j]) % dim) = b - 1 THEN 1 ELSE vec[b]]
\* lines 148-154: every token adds 1 to the entry of its bucket
RECURSIVE CountTokens(_, _, _)
CountTokens(toks, i, vec) ==
    IF i > Len(toks) THEN vec
    ELSE LET idx == Sha1Low16(toks[i]) % dim
         IN  CountTokens(toks, i + 1, [vec EXCEPT ![idx + 1] = @ + 1])
embed_text(text) == CountTokens(tokens(text), 1, [i \in 1..dim |-> 0])

\* hashlib.sha1 of a file's bytes, for the contents the model's files take
Doc1 == <<"a", " ", "b", "\n", "\n",
          "a", " ", "b", " ", "a", " ", "b", " ", "a", " ", "b", "\n", "\n",
          "b", " ", "a", " ", "a">>
Doc2 == <<"b", " ", "a", " ", "b", " ", "a", "\n", "\n", "\n", "\n",
          "a", " ", "b", " ", "a", " ", "b", "\n", "\n",
          "A", " ", "B">>
Doc3 == <<" ", "\n", "\n", "\n">>
Docs == {Doc1, Doc2, Doc3}
\* the queries passed to retrieve_relevant
\* the values of k: the callers pass a small count; k is an int, so a negative
\* one can be passed too
Ks == (-1)..MaxK
Queries == { <<"a", " ", "b">>, <<>>, <<"b", " ", "a", " ", "a">>, <<"A", " ", "B">> }

file_sha1(content) ==
    CASE content = Doc1 -> "2558eed9a019e79af9b0a5a0aaa9d71cae4c06dc"
      [] content = Doc2 -> "cbe766ff24e054a2b03384e5112430bd329f8810"
      [] content = Doc3 -> "721a3923de7a1b71f08871cb65322cfbb11ecc6c"

(***************************************************************************)
(* retriever_compliance: _chunk_policy                                     *)
(***************************************************************************)
\* [p.strip() for p in text.split("\n\n") if p.strip()]
RECURSIVE StripAll(_, _)
StripAll(parts, i) ==
    IF i > Len(parts) THEN <<>>
    ELSE (IF strip(parts[i]) = <<>> THEN <<>> ELSE <<strip(parts[i])>>) \o StripAll(parts, i + 1)
paragraphs_of(text) == StripAll(split_paragraphs(text), 1)

\* variant of ChunkStep: the separator is not counted
ChunkStepNoSeparator(chunk_size, st, p) ==
    IF Len(st.current) + Len(p) <= chunk_size
    THEN [chunks  |-> st.chunks,
          current |-> st.current \o (IF st.current # <<>> THEN ParaSep ELSE <<>>) \o p]
    ELSE [chunks  |-> IF st.current # <<>> THEN Append(st.chunks, st.current) ELSE st.chunks,
          current |-> p]
\* the loop over the paragraphs; st.current is the running buffer
ChunkStep(chunk_size, st, p) ==
    IF Len(st.current) + Len(p) + 2 <= chunk_size
    THEN [chunks  |-> st.chunks,
          current |-> st.current \o (IF st.current # <<>> THEN ParaSep ELSE <<>>) \o p]
    ELSE [chunks  |-> IF st.current # <<>> THEN Append(st.chunks, st.current) ELSE st.chunks,
          current |-> p]

RECURSIVE ChunkLoop(_, _, _, _)
ChunkLoop(chunk_size, paragraphs, i, st) ==
    IF i > Len(paragraphs) THEN st
    ELSE Force(LAMBDA v : ChunkLoop(chunk_size, paragraphs, i + 1, v),
               ChunkStep(chunk_size, st, paragraphs[i]))

\* variant of Enumerate: the ids are counted from 1
EnumerateFromOne(texts, i) ==
    [j \in 1..(Len(texts) - i + 1) |-> [id |-> i + j - 1, text |-> texts[i + j - 1]]]
\* line 48: [{"id": i, "text": c} for i, c in enumerate(chunks)]
RECURSIVE Enumerate(_, _)
Enumerate(texts, i) ==
    IF i > Len(texts) THEN <<>>
    ELSE <<[id |-> i - 1, text |-> texts[i]]>> \o Enumerate(texts, i + 1)

\* variant of chunk_policy: the buffer left after the loop is not emitted
chunk_policy_no_flush(text, chunk_size) ==
    LET Run(paragraphs) ==
            ChunkLoop(chunk_size, paragraphs, 1, [chunks |-> <<>>, current |-> <<>>]).chunks
    IN  Enumerate(Force(Run, paragraphs_of(text)), 1)
\* lines 30-48
chunk_policy(text, chunk_size) ==
    LET Run(paragraphs) ==
            LET st == ChunkLoop(chunk_size, paragraphs, 1, [chunks |-> <<>>, current |-> <<>>])
            IN  IF st.current # <<>> THEN Append(st.chunks, st.current) ELSE st.chunks
    IN  Enumerate(Force(Run, paragraphs_of(text)), 1)

(***************************************************************************)
(* The index and its file                                                  *)
(***************************************************************************)
\* for c in chunks: c["embedding"] = embed_text(c["text"])
RECURSIVE EmbedAll(_, _)
EmbedAll(chunks, i) ==
    IF i > Len(chunks) THEN <<>>
    ELSE <<[id |-> chunks[i].id, text |-> chunks[i].text,
            embedding |-> embed_text(chunks[i].text)]>> \o EmbedAll(chunks, i + 1)

\* the dictionary build_index writes
IndexData(sha, chunks) ==
    [meta |-> [source_sha1 |-> sha, num_chunks |-> Len(chunks)], chunks |-> chunks]

\* The file is a sequence of units in the order json.dumps emits them: the
\* "_meta" object, one unit per chunk, the closing of the document.  A unit
\* "nul" is a hole left by a write beyond the end of the file.
MetaUnit(meta) == [kind |-> "meta", val |-> <<meta.source_sha1, meta.num_chunks>>]
ChunkUnit(c) == [kind |-> "chunk", val |-> <<c.id, c.text, c.embedding>>]
EndUnit == [kind |-> "end", val |-> <<>>]

RECURSIVE ChunkUnits(_, _)
ChunkUnits(chunks, i) ==
    IF i > Len(chunks) THEN <<>> ELSE <<ChunkUnit(chunks[i])>> \o ChunkUnits(chunks, i + 1)
\* json.dumps(data)
dumps(data) == <<MetaUnit(data.meta)>> \o ChunkUnits(data.chunks, 1) \o <<EndUnit>>

\* json.loads succeeds on exactly the well-formed documents
WellFormed(units) ==
    /\ Len(units) >= 2
    /\ units[1].kind = "meta"
    /\ units[Len(units)].kind = "end"
    /\ \A i \in 2..(Len(units) - 1) : units[i].kind = "chunk"

RECURSIVE ChunksOfUnits(_, _)
ChunksOfUnits(units, i) ==
    IF i >= Len(units) THEN <<>>
    ELSE <<[id |-> units[i].val[1], text |-> units[i].val[2], embedding |-> units[i].val[3]]>>
         \o ChunksOfUnits(units, i + 1)
\* json.loads(text) of a well-formed document
loads(units) ==
    [meta   |-> [source_sha1 |-> units[1].val[1], num_chunks |-> units[1].val[2]],
     chunks |-> ChunksOfUnits(units, 2)]

\* the index build_index computes from a source text
BuildChunks(text) == EmbedAll(chunk_policy(text, ChunkSize), 1)

(***************************************************************************)
(* retriever_compliance: retrieve_relevant, the scoring                    *)
(***************************************************************************)
RECURSIVE SumRange(_, _, _)
SumRange(F(_), lo, hi) ==
    IF lo > hi THEN 0
    ELSE IF lo = hi THEN F(lo)
    ELSE SumRange(F, lo, (lo + hi) \div 2) + SumRange(F, ((lo + hi) \div 2) + 1, hi)
\* a @ b; the entries are whole numbers, so the sum is exact
Dot(a, b) == SumRange(LAMBDA i : a[i] * b[i], 1, Len(a))
\* np.linalg.norm(a)
norm(a) == FSqrt(Dot(a, a))

\* variant of cos_sim: an undefined similarity counts as a perfect match
cos_sim_undefined_is_one(a, b) ==
    LET Quotient(denom) == IF denom # FZero THEN FDiv(FOfInt(Dot(a, b)), denom) ELSE FOfInt(1)
    IN  Force(Quotient, FMul(norm(a), norm(b)))
\* variant of cos_sim: the dot product without the division by the norms
cos_sim_unnormalised(a, b) == FOfInt(Dot(a, b))
\* lines 114-116: float(a @ b / denom) if denom != 0 else 0.0
cos_sim(a, b) ==
    LET Quotient(denom) == IF denom # FZero THEN FDiv(FOfInt(Dot(a, b)), denom) ELSE FZero
    IN  Force(Quotient, FMul(norm(a), norm(b)))

\* cos_sim on the vectors of the model's queries and chunks, computed once
CosTable ==
    LET qvecs == {embed_text(q) : q \in Queries}
        cvecs == UNION {{c.embedding : c \in Range(BuildChunks(d))} : d \in Docs}
    IN  {<<a, b, cos_sim(a, b)>> : a \in qvecs, b \in cvecs}
\* cos_sim(a, b), looked up where it was computed before
cos_sim_of(a, b) ==
    IF \E e \in CosTable : e[1] = a /\ e[2] = b
    THEN (CHOOSE e \in CosTable : e[1] = a /\ e[2] = b)[3]
    ELSE cos_sim(a, b)

\* scored = [(cos_sim(q_emb, c["embedding"]), c) for c in chunks]
RECURSIVE ScoreAll(_, _, _)
ScoreAll(q_emb, chunks, i) ==
    IF i > Len(chunks) THEN <<>>
    ELSE <<[score |-> cos_sim_of(q_emb, chunks[i].embedding), chunk |-> chunks[i]]>>
         \o ScoreAll(q_emb, chunks, i + 1)

\* variant of InsertDesc: x goes in front of the entries of equal score
InsertDescTiesFirst(sorted, x, i) ==
    LET n == Cardinality({j \in i..Len(sorted) : FCmp(sorted[j].score, x.score) > 0})
    IN  SubSeq(sorted, 1, i - 1 + n) \o <<x>> \o SubSeq(sorted, i + n, Len(sorted))
\* position of x in a list sorted by decreasing score: behind every entry
\* whose score is not smaller
RECURSIVE InsertDesc(_, _, _)
InsertDesc(sorted, x, i) ==
    IF i > Len(sorted) \/ FCmp(sorted[i].score, x.score) < 0
    THEN SubSeq(sorted, 1, i - 1) \o <<x>> \o SubSeq(sorted, i, Len(sorted))
    ELSE InsertDesc(sorted, x, i + 1)
\* list.sort(key=lambda x: x[0], reverse=True): stable, equal keys keep their order
RECURSIVE SortDescFrom(_, _, _)
SortDescFrom(scored, i, sorted) ==
    IF i > Len(scored) THEN sorted
    ELSE Force(LAMBDA v : SortDescFrom(scored, i + 1, v), InsertDesc(sorted, scored[i], 1))
sort_desc(scored) == SortDescFrom(scored, 1, <<>>)

\* variant of Slice: s[:k + 1]
SliceOneMore(s, k) ==
    IF k >= 0 THEN SubSeq(s, 1, Min(k + 1, Len(s))) ELSE SubSeq(s, 1, Max(Len(s) + k + 1, 0))
\* s[:k]
Slice(s, k) ==
    IF k >= 0 THEN SubSeq(s, 1, Min(k, Len(s))) ELSE SubSeq(s, 1, Max(Len(s) + k, 0))

RECURSIVE ChunksOf(_, _)
ChunksOf(scored, i) ==
    IF i > Len(scored) THEN <<>> ELSE <<scored[i].chunk>> \o ChunksOf(scored, i + 1)

\* lines 111-125: the scored list after the sort
Scored(query, chunks) ==
    LET Run(q_emb) == Force(sort_desc, ScoreAll(q_emb, chunks, 1))
    IN  Force(Run, embed_text(query))

(***************************************************************************)
(* fraud_detector_contextual: find_related_emails                          *)
(***************************************************************************)
\* s.lower()
lower_text(s) == [i \in 1..Len(s) |-> lower(s[i])]
\* needle in hay
Contains(needle, hay) ==
    \E i \in 1..(Len(hay) - Len(needle) + 1) : SubSeq(hay, i, i + Len(needle) - 1) = needle
\* s.replace("-", " ")
replace_hyphens(s) == [i \in 1..Len(s) |-> IF s[i] = "-" THEN " " ELSE s[i]]

\* raw.splitlines(): the pieces ended by a newline, and the rest when not empty
LineEnd(raw, i) ==
    IF \E j \in i..Len(raw) : raw[j] = "\n"
    THEN CHOOSE j \in i..Len(raw) : raw[j] = "\n" /\ \A m \in i..(j - 1) : raw[m] # "\n"
    ELSE Len(raw) + 1
SplitStep(raw, st) ==
    IF st.pos > Len(raw) THEN st
    ELSE [pos   |-> LineEnd(raw, st.pos) + 1,
          lines |-> Append(st.lines, SubSeq(raw, st.pos, LineEnd(raw, st.pos) - 1))]
splitlines(raw) ==
    Iterate(LAMBDA st : SplitStep(raw, st), [pos |-> 1, lines |-> <<>>], Len(raw)).lines

\* "\n".join(lines[lo..hi])
RECURSIVE JoinRange(_, _, _)
JoinRange(lines, lo, hi) ==
    IF lo > hi THEN <<>>
    ELSE IF lo = hi THEN lines[lo]
    ELSE JoinRange(lines, lo, (lo + hi) \div 2) \o <<"\n">>
            \o JoinRange(lines, ((lo + hi) \div 2) + 1, hi)
join_lines(lines) == JoinRange(lines, 1, Len(lines))

\* line 66
stop_words ==
    { <<"d", "e">>, <<"d", "o">>, <<"d", "a">>, <<"p", "a", "r", "a">>, <<"c", "o", "m">>,
      <<"d", "e", "s", "p", "e", "s", "a">>, <<"c", "o", "m", "p", "r", "a">>,
      <<"g", "a", "s", "t", "o">> }
\* the stop words kept
IsKeywordAnyWord(w) == Len(w) > 3
\* line 68: the words that count as keywords
IsKeyword(w) == Len(w) > 3 /\ w \notin stop_words
\* lines 63-68
desc_keywords_of(description) ==
    IF description = <<>> THEN <<>>
    ELSE SelectSeq(tokens(replace_hyphens(lower_text(description))), IsKeyword)

\* an empty string or list taken as given
GivenAlways(s) == TRUE
\* lines 74, 78, 81: the truth value of a string or a list
Given(s) == s # <<>>

\* keywords looked up in the line as written
LineMatchesKeywordCase(ln, name_lower, amount_str, desc_keywords) ==
    IF Given(name_lower) /\ Contains(name_lower, lower_text(ln)) THEN TRUE
    ELSE IF Given(amount_str) /\ Contains(amount_str, ln) THEN TRUE
    ELSE IF Given(desc_keywords)
         THEN \E i \in 1..Len(desc_keywords) : Contains(desc_keywords[i], ln)
         ELSE FALSE
\* lines 72-85: the line is appended to matches
LineMatches(ln, name_lower, amount_str, desc_keywords) ==
    IF Given(name_lower) /\ Contains(name_lower, lower_text(ln)) THEN TRUE
    ELSE IF Given(amount_str) /\ Contains(amount_str, ln) THEN TRUE
    ELSE IF Given(desc_keywords)
         THEN \E i \in 1..Len(desc_keywords) : Contains(desc_keywords[i], lower_text(ln))
         ELSE FALSE

\* line 88
EvidenceCap == 80
\* without the cap
cap_matches_uncapped(matches) == matches
\* lines 88-89
cap_matches(matches) ==
    IF Len(matches) > EvidenceCap THEN SubSeq(matches, 1, EvidenceCap) ELSE matches

\* lines 56-89: the list matches when the function returns
related_lines(raw, employee_name, amount, description) ==
    LET Scan(in) ==
            LET Test(ln) == LineMatches(ln, in.name_lower, in.amount_str, in.desc_keywords)
            IN  cap_matches(SelectSeq(in.lines, Test))
    IN  Force(Scan, [lines         |-> splitlines(raw),
                     name_lower    |-> lower_text(employee_name),
                     amount_str    |-> strip(amount),
                     desc_keywords |-> desc_keywords_of(description)])
\* line 91
find_related_emails(raw, employee_name, amount, description) ==
    join_lines(related_lines(raw, employee_name, amount, description))

(***************************************************************************)
(* llm_client: clean_json                                                  *)
(*                                                                         *)
(* json.loads on texts of objects, arrays, strings without escapes, the    *)
(* literals true, false, null and numbers written with the digit 1.  A parsed value is written as its     *)
(* text without white space, which names the value: an object with its     *)
(* keys in order, an array in brackets, a string in quotes.                *)
(***************************************************************************)
NoParse == [ok |-> FALSE, out |-> <<>>, next |-> 0]
Parsed(out, next) == [ok |-> TRUE, out |-> out, next |-> next]
CharAt(txt, i) == IF i \in 1..Len(txt) THEN txt[i] ELSE "eof"

\* the first position from i on that holds no white space
RECURSIVE SkipWs(_, _)
SkipWs(txt, i) == IF CharAt(txt, i) = " " THEN SkipWs(txt, i + 1) ELSE i

\* a string starts at i with its opening quote
ParseString(txt, i) ==
    IF \E j \in (i + 1)..Len(txt) : txt[j] = "\""
    THEN LET j == CHOOSE j \in (i + 1)..Len(txt) :
                      txt[j] = "\"" /\ \A m \in (i + 1)..(j - 1) : txt[m] # "\""
         IN  Parsed(SubSeq(txt, i, j), j + 1)
    ELSE NoParse

\* a number starts at i with a digit
RECURSIVE NumberEnd(_, _)
NumberEnd(txt, i) == IF CharAt(txt, i) = "1" THEN NumberEnd(txt, i + 1) ELSE i
ParseNumber(txt, i) == Parsed(SubSeq(txt, i, NumberEnd(txt, i) - 1), NumberEnd(txt, i))

\* true, false, null
Literals == { <<"t", "r", "u", "e">>, <<"f", "a", "l", "s", "e">>, <<"n", "u", "l", "l">> }

RECURSIVE ParseValue(_, _)
RECURSIVE ParseMembers(_, _, _)
RECURSIVE ParseElements(_, _, _)
\* the members of an object from i on, after "{" or ","
ParseMembers(txt, i, acc) ==
    LET k == SkipWs(txt, i) IN
    IF CharAt(txt, k) # "\"" THEN NoParse
    ELSE LET AfterKey(key) ==
                 IF ~key.ok \/ CharAt(txt, SkipWs(txt, key.next)) # ":" THEN NoParse
                 ELSE LET AfterValue(v) ==
                              IF ~v.ok THEN NoParse
                              ELSE LET m == SkipWs(txt, v.next)
                                       item == acc \o key.out \o <<":">> \o v.out
                                   IN  IF CharAt(txt, m) = ","
                                       THEN ParseMembers(txt, m + 1, item \o <<",">>)
                                       ELSE IF CharAt(txt, m) = "}"
                                       THEN Parsed(item \o <<"}">>, m + 1)
                                       ELSE NoParse
                      IN  Force(AfterValue, ParseValue(txt, SkipWs(txt, key.next) + 1))
         IN  Force(AfterKey, ParseString(txt, k))
\* the elements of an array from i on, after "[" or ","
ParseElements(txt, i, acc) ==
    LET AfterValue(v) ==
            IF ~v.ok THEN NoParse
            ELSE LET m == SkipWs(txt, v.next)
                 IN  IF CharAt(txt, m) = ","
                     THEN ParseElements(txt, m + 1, acc \o v.out \o <<",">>)
                     ELSE IF CharAt(txt, m) = "]"
                     THEN Parsed(acc \o v.out \o <<"]">>, m + 1)
                     ELSE NoParse
    IN  Force(AfterValue, ParseValue(txt, i))
\* a value from i on, after white space
ParseValue(txt, i) ==
    LET k == SkipWs(txt, i)
        c == CharAt(txt, k)
    IN  IF c = "{"
        THEN IF CharAt(txt, SkipWs(txt, k + 1)) = "}"
             THEN Parsed(<<"{", "}">>, SkipWs(txt, k + 1) + 1)
             ELSE ParseMembers(txt, k + 1, <<"{">>)
        ELSE IF c = "["
        THEN IF CharAt(txt, SkipWs(txt, k + 1)) = "]"
             THEN Parsed(<<"[", "]">>, SkipWs(txt, k + 1) + 1)
             ELSE ParseElements(txt, k + 1, <<"[">>)
        ELSE IF c = "\"" THEN ParseString(txt, k)
        ELSE IF c = "1" THEN ParseNumber(txt, k)
        ELSE IF \E lit \in Literals : SubSeq(txt, k, Min(Len(txt), k + Len(lit) - 1)) = lit
        THEN LET lit == CHOOSE lit \in Literals :
                           SubSeq(txt, k, Min(Len(txt), k + Len(lit) - 1)) = lit
             IN  Parsed(lit, k + Len(lit))
        ELSE NoParse
\* json.loads(txt): one value and nothing but white space after it
json_loads(txt) ==
    LET Whole(v) == IF v.ok /\ SkipWs(txt, v.next) > Len(txt) THEN v ELSE NoParse
    IN  Force(Whole, ParseValue(txt, 1))

\* the first brace taken to be the last one
FindLastBrace(txt) ==
    IF \E i \in 1..Len(txt) : txt[i] = "{"
    THEN CHOOSE i \in 1..Len(txt) : txt[i] = "{" /\ \A m \in (i + 1)..Len(txt) : txt[m] # "{"
    ELSE 0
\* line 67: txt.find("{"), 0 when there is none
FindBrace(txt) ==
    IF \E i \in 1..Len(txt) : txt[i] = "{"
    THEN CHOOSE i \in 1..Len(txt) : txt[i] = "{" /\ \A m \in 1..(i - 1) : txt[m] # "{"
    ELSE 0
\* lines 72-80: the position where the depth is back at 0, 0 when there is none
RECURSIVE ScanBraces(_, _, _)
ScanBraces(txt, i, depth) ==
    IF i > Len(txt) THEN 0
    ELSE IF txt[i] = "{" THEN ScanBraces(txt, i + 1, depth + 1)
    ELSE IF txt[i] = "}"
         THEN IF depth - 1 = 0 THEN i ELSE ScanBraces(txt, i + 1, depth - 1)
    ELSE ScanBraces(txt, i + 1, depth)

Returned(value) == [exc |-> "none", value |-> value]
Raised(e) == [exc |-> e, value |-> <<>>]
\* lines 83-92, for the stripped text, the first brace and the end found
CutAndParse(txt, start, end) ==
    IF end = 0 THEN Raised("ValueError")
    ELSE LET Outcome(v) == IF v.ok THEN Returned(v.out) ELSE Raised("ValueError")
         IN  Force(Outcome, json_loads(SubSeq(txt, start, end)))
\* lines 59-92
clean_json(txt) ==
    LET Stripped(t) ==
            LET Direct(v) ==
                    IF v.ok THEN Returned(v.out)
                    ELSE IF FindBrace(t) = 0 THEN Raised("ValueError")
                    ELSE CutAndParse(t, FindBrace(t), ScanBraces(t, FindBrace(t), 0))
            IN  Force(Direct, json_loads(t))
    IN  Force(Stripped, strip(txt))

\* llm_json without its try
llm_json_propagates(content) == clean_json(strip(content))
\* lines 126-135: the record llm_json makes of the reply's content
llm_json(content) ==
    LET Caught(r) == IF r.exc = "none" THEN r ELSE Returned(<<"{", "}">>)
    IN  Force(Caught, clean_json(strip(content)))

(***************************************************************************)
(* The state: the two files, and the processes calling the retriever       *)
(***************************************************************************)
Procs == {1, 2}

VARIABLES
    policyFile,    \* POLICY_PATH: [exists, content]
    indexFile,     \* INDEX_PATH: [exists, content], content a sequence of units
    proc,          \* per process: position in the code and local variables
    obs,           \* per process: what its current build_index call found and did
    quietWrites,   \* index writes by retrieve_relevant since the files were last changed from outside
    budget,        \* calls and source changes left (concurrent specification only)
    emailsFile,    \* EMAILS_PATH: [exists, content]
    transFile,     \* TRANS_PATH: [exists, content], content the rows csv.DictReader reads
    trace          \* what the current batch call did: its items, its calls, its prints

vars == <<policyFile, indexFile, proc, obs, quietWrites, budget, emailsFile, transFile, trace>>

NoFile == [exists |-> FALSE, content |-> <<>>]
File(content) == [exists |-> TRUE, content |-> content]
NoData == IndexData("", <<>>)

IdleProc ==
    [pc |-> "idle", op |-> "none", ret |-> "done", force |-> FALSE, old_sha |-> "",
     chunks |-> <<>>, data |-> NoData, idx |-> <<>>,
     query |-> <<>>, k |-> 0, scored |-> <<>>, result |-> <<>>, exc |-> "none",
     args |-> <<>>, value |-> <<>>, txt |-> <<>>,
     rows |-> <<>>, i |-> 0, results |-> <<>>, at |-> "none", flag |-> FALSE]
NoObs == [source |-> "none", index |-> "none", chunked |-> 0, embedded |-> 0, writes |-> 0]

\* the complete index file build_index leaves for a source text
IndexFileOf(text) == File(dumps(IndexData(file_sha1(text), BuildChunks(text))))

Init ==
    /\ policyFile \in {NoFile} \cup {File(d) : d \in Docs}
    /\ indexFile \in {NoFile} \cup {IndexFileOf(d) : d \in Docs}
    /\ proc = [p \in Procs |-> IdleProc]
    /\ obs = [p \in Procs |-> NoObs]
    /\ quietWrites = 0
    /\ budget = [calls |-> [p \in Procs |-> MaxCalls], edits |-> MaxEdits]
    /\ emailsFile = NoFile
    /\ transFile = NoFile
    /\ trace = <<>>

Set(p, rec) == proc' = [proc EXCEPT ![p] = rec]
\* an exception leaves the call
Raise(p, e) == Set(p, [proc[p] EXCEPT !.pc = "done", !.exc = e])
\* build_index returns to its caller; inside retrieve_relevant its locals are gone
BuildReturn(p) ==
    IF proc[p].ret = "done"
    THEN Set(p, [proc[p] EXCEPT !.pc = "done"])
    ELSE Set(p, [proc[p] EXCEPT !.pc = proc[p].ret, !.old_sha = "", !.chunks = <<>>, !.data = NoData])

(***************************************************************************)
(* Calls                                                                   *)
(***************************************************************************)
\* what a call of build_index finds: the source present or missing, the
\* index absent, corrupt (not parseable), current (its fingerprint is the
\* source's) or stale
SourceState == IF policyFile.exists THEN "present" ELSE "missing"
IndexState ==
    IF ~indexFile.exists THEN "absent"
    ELSE IF ~WellFormed(indexFile.content) THEN "corrupt"
    ELSE IF policyFile.exists
            /\ loads(indexFile.content).meta.source_sha1 = file_sha1(policyFile.content)
         THEN "current"
         ELSE "stale"
EnterBuild(p) == obs' = [obs EXCEPT ![p] = [NoObs EXCEPT !.source = SourceState, !.index = IndexState]]

\* build_index(force) called directly
CallBuildIndex(p) ==
    /\ proc[p].pc = "idle"
    /\ \E f \in BOOLEAN :
          Set(p, [IdleProc EXCEPT !.pc = "B_exists", !.op = "build_index", !.force = f])
    /\ EnterBuild(p)
    /\ UNCHANGED <<policyFile, indexFile, quietWrites>>

\* retrieve_relevant(query, k), line 106: build_index(force=False)
CallRetrieve(p) ==
    /\ proc[p].pc = "idle"
    /\ \E query \in Queries, k \in Ks :
          Set(p, [IdleProc EXCEPT !.pc = "B_exists", !.op = "retrieve_relevant",
                                  !.ret = "L_exists", !.query = query, !.k = k])
    /\ EnterBuild(p)
    /\ UNCHANGED <<policyFile, indexFile, quietWrites>>

\* the caller takes the result (or the exception) and the locals are gone
Return(p) ==
    /\ proc[p].pc = "done"
    /\ Set(p, IdleProc)
    /\ obs' = [obs EXCEPT ![p] = NoObs]
    /\ UNCHANGED <<policyFile, indexFile, quietWrites>>

(***************************************************************************)
(* build_index                                                             *)
(***************************************************************************)
\* line 60: if not force and INDEX_PATH.exists()
BuildExists(p) ==
    /\ proc[p].pc = "B_exists"
    /\ Set(p, [proc[p] EXCEPT !.pc = IF ~proc[p].force /\ indexFile.exists
                                      THEN "B_read" ELSE "B_chunk"])
    /\ UNCHANGED <<policyFile, indexFile, obs, quietWrites>>

\* lines 62-63: existing = json.loads(INDEX_PATH.read_text()); old_sha = ...
BuildRead(p) ==
    /\ proc[p].pc = "B_read"
    /\ IF ~indexFile.exists THEN Raise(p, "FileNotFoundError")
       ELSE IF ~WellFormed(indexFile.content) THEN Raise(p, "JSONDecodeError")
       ELSE Set(p, [proc[p] EXCEPT !.pc = "B_sha",
                                   !.old_sha = loads(indexFile.content).meta.source_sha1])
    /\ UNCHANGED <<policyFile, indexFile, obs, quietWrites>>

\* variant of BuildCompare: the fingerprints are never taken as equal
BuildCompareNoCache(p) ==
    /\ proc[p].pc = "B_sha"
    /\ IF ~policyFile.exists THEN Raise(p, "FileNotFoundError")
       ELSE Set(p, [proc[p] EXCEPT !.pc = "B_chunk"])
    /\ UNCHANGED <<policyFile, indexFile, obs, quietWrites>>
\* lines 64-65: if old_sha == file_sha1(POLICY_PATH): return
BuildCompare(p) ==
    /\ proc[p].pc = "B_sha"
    /\ IF ~policyFile.exists THEN Raise(p, "FileNotFoundError")
       ELSE IF proc[p].old_sha = file_sha1(policyFile.content)
            THEN BuildReturn(p)
            ELSE Set(p, [proc[p] EXCEPT !.pc = "B_chunk"])
    /\ UNCHANGED <<policyFile, indexFile, obs, quietWrites>>

\* lines 68-72: chunks = _chunk_policy(); every chunk gets its embedding
BuildChunk(p) ==
    /\ proc[p].pc = "B_chunk"
    /\ IF ~policyFile.exists
       THEN Raise(p, "FileNotFoundError") /\ UNCHANGED obs
       ELSE LET chunks == BuildChunks(policyFile.content)
            IN  /\ Set(p, [proc[p] EXCEPT !.pc = "B_meta", !.chunks = chunks])
                /\ obs' = [obs EXCEPT ![p].chunked = @ + 1, ![p].embedded = @ + Len(chunks)]
    /\ UNCHANGED <<policyFile, indexFile, quietWrites>>

\* lines 75-81: data = {"_meta": {"source_sha1": file_sha1(POLICY_PATH), ...}, "chunks": chunks}
BuildMeta(p) ==
    /\ proc[p].pc = "B_meta"
    /\ IF ~policyFile.exists THEN Raise(p, "FileNotFoundError")
       ELSE Set(p, [proc[p] EXCEPT !.pc = "B_open", !.chunks = <<>>,
                       !.data = IndexData(file_sha1(policyFile.content), proc[p].chunks)])
    /\ UNCHANGED <<policyFile, indexFile, obs, quietWrites>>

\* variant of open_w: the file is opened without being truncated
open_keep(file) == File(file.content)
\* open(INDEX_PATH, "w"): the file is created or truncated, the offset is 0
open_w(file) == File(<<>>)

\* line 84, write_text: the open
BuildOpen(p) ==
    /\ proc[p].pc = "B_open"
    /\ indexFile' = open_w(indexFile)
    /\ Set(p, [proc[p] EXCEPT !.pc = "B_write"])
    /\ obs' = [obs EXCEPT ![p].writes = @ + 1]
    /\ quietWrites' = IF proc[p].op = "retrieve_relevant"
                      THEN Min(quietWrites + 1, MaxWrites) ELSE quietWrites
    /\ UNCHANGED policyFile

\* write(2) at offset 0 of the descriptor: the units replace the start of
\* the file, what another writer put behind them stays
write_at_0(content, units) == units \o SubSeq(content, Len(units) + 1, Len(content))

\* line 84, write_text: the whole text goes out in one write, then the file is closed
BuildWrite(p) ==
    /\ proc[p].pc = "B_write"
    /\ indexFile' = File(write_at_0(indexFile.content, dumps(proc[p].data)))
    /\ BuildReturn(p)
    /\ UNCHANGED <<policyFile, obs, quietWrites>>

(***************************************************************************)
(* _load_index and retrieve_relevant                                       *)
(***************************************************************************)
\* variant of LoadExists: _load_index builds whether or not the file exists
LoadAlwaysBuilds(p) ==
    /\ proc[p].pc = "L_exists"
    /\ Set(p, [proc[p] EXCEPT !.pc = "B_exists", !.force = TRUE, !.ret = "L_read"])
    /\ EnterBuild(p)
    /\ UNCHANGED <<policyFile, indexFile, quietWrites>>
\* lines 90-91: if not INDEX_PATH.exists(): build_index(force=True)
LoadExists(p) ==
    /\ proc[p].pc = "L_exists"
    /\ IF ~indexFile.exists
       THEN /\ Set(p, [proc[p] EXCEPT !.pc = "B_exists", !.force = TRUE, !.ret = "L_read"])
            /\ EnterBuild(p)
       ELSE /\ Set(p, [proc[p] EXCEPT !.pc = "L_read"])
            /\ UNCHANGED obs
    /\ UNCHANGED <<policyFile, indexFile, quietWrites>>

\* lines 92-97: data = json.loads(INDEX_PATH.read_text()); chunks = idx["chunks"]
LoadRead(p) ==
    /\ proc[p].pc = "L_read"
    /\ IF ~indexFile.exists THEN Raise(p, "FileNotFoundError")
       ELSE IF ~WellFormed(indexFile.content) THEN Raise(p, "JSONDecodeError")
       ELSE Set(p, [proc[p] EXCEPT !.pc = "R_score", !.idx = loads(indexFile.content).chunks])
    /\ UNCHANGED <<policyFile, indexFile, obs, quietWrites>>

\* lines 111-126: score every chunk, sort, return the first k chunks
Score(p) ==
    /\ proc[p].pc = "R_score"
    /\ LET scored == Scored(proc[p].query, proc[p].idx)
       IN  Set(p, [proc[p] EXCEPT !.pc = "done", !.scored = scored,
                                  !.result = ChunksOf(Slice(scored, proc[p].k), 1)])
    /\ UNCHANGED <<policyFile, indexFile, obs, quietWrites>>

(***************************************************************************)
(* The environment: the files are changed from outside the program          *)
(***************************************************************************)
WritePolicy ==
    /\ \E d \in Docs : d # policyFile.content /\ policyFile' = File(d)
    /\ quietWrites' = 0
    /\ UNCHANGED <<indexFile, proc, obs>>

RemovePolicy ==
    /\ policyFile.exists
    /\ policyFile' = NoFile
    /\ quietWrites' = 0
    /\ UNCHANGED <<indexFile, proc, obs>>

RemoveIndex ==
    /\ indexFile.exists
    /\ indexFile' = NoFile
    /\ quietWrites' = 0
    /\ UNCHANGED <<policyFile, proc, obs>>

\* an earlier writer was interrupted, or the file was damaged: a proper prefix remains
TruncateIndex ==
    /\ indexFile.exists
    /\ \E n \in 0..(Len(indexFile.content) - 1) :
          indexFile' = File(SubSeq(indexFile.content, 1, n))
    /\ quietWrites' = 0
    /\ UNCHANGED <<policyFile, proc, obs>>

AllIdle == \A p \in Procs : proc[p].pc = "idle"

(***************************************************************************)
(* Spec: one process, the files change from outside between its calls       *)
(***************************************************************************)
Next ==
    \/ CallBuildIndex(1) /\ UNCHANGED <<budget, emailsFile, transFile, trace>>
    \/ CallRetrieve(1) /\ UNCHANGED <<budget, emailsFile, transFile, trace>>
    \/ Return(1) /\ UNCHANGED <<budget, emailsFile, transFile, trace>>
    \/ BuildExists(1) /\ UNCHANGED <<budget, emailsFile, transFile, trace>>
    \/ BuildRead(1) /\ UNCHANGED <<budget, emailsFile, transFile, trace>>
    \/ BuildCompare(1) /\ UNCHANGED <<budget, emailsFile, transFile, trace>>
    \/ BuildChunk(1) /\ UNCHANGED <<budget, emailsFile, transFile, trace>>
    \/ BuildMeta(1) /\ UNCHANGED <<budget, emailsFile, transFile, trace>>
    \/ BuildOpen(1) /\ UNCHANGED <<budget, emailsFile, transFile, trace>>
    \/ BuildWrite(1) /\ UNCHANGED <<budget, emailsFile, transFile, trace>>
    \/ LoadExists(1) /\ UNCHANGED <<budget, emailsFile, transFile, trace>>
    \/ LoadRead(1) /\ UNCHANGED <<budget, emailsFile, transFile, trace>>
    \/ Score(1) /\ UNCHANGED <<budget, emailsFile, transFile, trace>>
    \/ AllIdle /\ WritePolicy /\ UNCHANGED <<budget, emailsFile, transFile, trace>>
    \/ AllIdle /\ RemovePolicy /\ UNCHANGED <<budget, emailsFile, transFile, trace>>
    \/ AllIdle /\ RemoveIndex /\ UNCHANGED <<budget, emailsFile, transFile, trace>>
    \/ AllIdle /\ TruncateIndex /\ UNCHANGED <<budget, emailsFile, transFile, trace>>
Spec == Init /\ [][Next]_vars

(***************************************************************************)
(* SpecConc: two processes share the files, and the source is rewritten at  *)
(* any moment, also in the middle of a call.  Every process makes MaxCalls  *)
(* calls and the source is rewritten MaxEdits times.                        *)
(***************************************************************************)
InitConc ==
    /\ policyFile = File(Doc1)
    /\ indexFile \in {NoFile, IndexFileOf(Doc1), IndexFileOf(Doc2)}
    /\ proc = [p \in Procs |-> IdleProc]
    /\ obs = [p \in Procs |-> NoObs]
    /\ quietWrites = 0
    /\ budget = [calls |-> [p \in Procs |-> MaxCalls], edits |-> MaxEdits]
    /\ emailsFile = NoFile
    /\ transFile = NoFile
    /\ trace = <<>>

\* a call spends one call of p's budget
SpendCall(p) == budget.calls[p] > 0 /\ budget' = [budget EXCEPT !.calls[p] = @ - 1]
SpendEdit == budget.edits > 0 /\ budget' = [budget EXCEPT !.edits = @ - 1]

\* the concurrent callers all ask the same question
ConcQuery == <<"a", " ", "b">>
SameQuestion(p) == proc'[p].query = ConcQuery /\ proc'[p].k = MaxK

NextConc ==
    \/ \E p \in Procs : CallBuildIndex(p) /\ SpendCall(p) /\ UNCHANGED <<emailsFile, transFile, trace>>
    \/ \E p \in Procs : CallRetrieve(p) /\ SameQuestion(p) /\ SpendCall(p) /\ UNCHANGED <<emailsFile, transFile, trace>>
    \/ \E p \in Procs : Return(p) /\ UNCHANGED <<budget, emailsFile, transFile, trace>>
    \/ \E p \in Procs : BuildExists(p) /\ UNCHANGED <<budget, emailsFile, transFile, trace>>
    \/ \E p \in Procs : BuildRead(p) /\ UNCHANGED <<budget, emailsFile, transFile, trace>>
    \/ \E p \in Procs : BuildCompare(p) /\ UNCHANGED <<budget, emailsFile, transFile, trace>>
    \/ \E p \in Procs : BuildChunk(p) /\ UNCHANGED <<budget, emailsFile, transFile, trace>>
    \/ \E p \in Procs : BuildMeta(p) /\ UNCHANGED <<budget, emailsFile, transFile, trace>>
    \/ \E p \in Procs : BuildOpen(p) /\ UNCHANGED <<budget, emailsFile, transFile, trace>>
    \/ \E p \in Procs : BuildWrite(p) /\ UNCHANGED <<budget, emailsFile, transFile, trace>>
    \/ \E p \in Procs : LoadExists(p) /\ UNCHANGED <<budget, emailsFile, transFile, trace>>
    \/ \E p \in Procs : LoadRead(p) /\ UNCHANGED <<budget, emailsFile, transFile, trace>>
    \/ \E p \in Procs : Score(p) /\ UNCHANGED <<budget, emailsFile, transFile, trace>>
    \/ WritePolicy /\ SpendEdit /\ UNCHANGED <<emailsFile, transFile, trace>>
SpecConc == InitConc /\ [][NextConc]_vars

(***************************************************************************)
(* SpecChunk: _chunk_policy(chunk_size) on every short policy text          *)
(***************************************************************************)
\* the policy texts: every text of at most MaxDocLen characters
DocAlphabet == {"a", " ", "\n"}
ChunkDocs == UNION {[1..n -> DocAlphabet] : n \in 0..MaxDocLen}

InitChunk ==
    /\ policyFile \in {NoFile} \cup {File(d) : d \in ChunkDocs}
    /\ indexFile = NoFile
    /\ proc = [p \in Procs |-> IdleProc]
    /\ obs = [p \in Procs |-> NoObs]
    /\ quietWrites = 0
    /\ budget = [calls |-> [p \in Procs |-> MaxCalls], edits |-> MaxEdits]
    /\ emailsFile = NoFile
    /\ transFile = NoFile
    /\ trace = <<>>

\* _chunk_policy(chunk_size) is called
CallChunkPolicy(p) ==
    /\ proc[p].pc = "idle"
    /\ \E chunk_size \in 1..MaxChunkSize :
          Set(p, [IdleProc EXCEPT !.pc = "C_load", !.op = "_chunk_policy",
                                  !.args = [chunk_size |-> chunk_size]])
    /\ UNCHANGED <<policyFile, indexFile, obs, quietWrites>>

\* lines 30-48: the text is loaded, cut into paragraphs and grouped
ChunkPolicy(p) ==
    /\ proc[p].pc = "C_load"
    /\ IF ~policyFile.exists THEN Raise(p, "FileNotFoundError")
       ELSE Set(p, [proc[p] EXCEPT !.pc = "done",
                       !.value = chunk_policy(policyFile.content, proc[p].args.chunk_size)])
    /\ UNCHANGED <<policyFile, indexFile, obs, quietWrites>>

NextChunk ==
    \/ CallChunkPolicy(1) /\ UNCHANGED <<budget, emailsFile, transFile, trace>>
    \/ ChunkPolicy(1) /\ UNCHANGED <<budget, emailsFile, transFile, trace>>
    \/ Return(1) /\ UNCHANGED <<budget, emailsFile, transFile, trace>>
SpecChunk == InitChunk /\ [][NextChunk]_vars

(***************************************************************************)
(* SpecEmbed: embed_text on every short text                                *)
(***************************************************************************)
EmbedAlphabet == {"a", "b", "A", " ", "\n"}
\* texts in which different tokens fall into the same bucket
CollidingTexts ==
    { <<"b", "a", " ", "a", "b", "b", "a">>,
      <<"B", "a", "\n", "a", "b", "b", "A", " ", " ", "b", "a", "b", "a">> }
EmbedTexts == UNION {[1..n -> EmbedAlphabet] : n \in 0..MaxTextLen} \cup CollidingTexts

InitEmbed ==
    /\ policyFile = NoFile
    /\ indexFile = NoFile
    /\ proc = [p \in Procs |-> IdleProc]
    /\ obs = [p \in Procs |-> NoObs]
    /\ quietWrites = 0
    /\ budget = [calls |-> [p \in Procs |-> MaxCalls], edits |-> MaxEdits]
    /\ emailsFile = NoFile
    /\ transFile = NoFile
    /\ trace = <<>>

\* embed_text(text) is called
CallEmbedText(p) ==
    /\ proc[p].pc = "idle"
    /\ \E text \in EmbedTexts :
          Set(p, [IdleProc EXCEPT !.pc = "E_run", !.op = "embed_text", !.args = [text |-> text]])
    /\ UNCHANGED <<policyFile, indexFile, obs, quietWrites>>

\* lines 146-156
EmbedText(p) ==
    /\ proc[p].pc = "E_run"
    /\ Set(p, [proc[p] EXCEPT !.pc = "done", !.value = embed_text(proc[p].args.text)])
    /\ UNCHANGED <<policyFile, indexFile, obs, quietWrites>>

NextEmbed ==
    \/ CallEmbedText(1) /\ UNCHANGED <<budget, emailsFile, transFile, trace>>
    \/ EmbedText(1) /\ UNCHANGED <<budget, emailsFile, transFile, trace>>
    \/ Return(1) /\ UNCHANGED <<budget, emailsFile, transFile, trace>>
SpecEmbed == InitEmbed /\ [][NextEmbed]_vars

(***************************************************************************)
(* SpecLinker: find_related_emails on small corpora and on corpora with     *)
(* more matching lines than the cap                                         *)
(***************************************************************************)
LinePool ==
    { <<"j", "O">>, <<"A", "1">>, <<"p", "a", "r", "a", " ", "a", "1", " ", "7">>, <<"x", "A", "B", "B", "A", "x">>,
      <<"a", "b", "b", "a", " ", "b", "a", "b", "a", "b", " ", "J", "o", " ", "A", "1">>,
      <<"z", "z">>, <<>> }
ShortCorpora == UNION {[1..n -> LinePool] : n \in 0..MaxLines}
Digits == <<"0", "1", "2", "3", "4", "5", "6", "7", "8", "9">>
Numeral(i) == <<Digits[(i \div 100) + 1], Digits[((i \div 10) % 10) + 1], Digits[(i % 10) + 1]>>
\* n numbered lines, every fifth of them without the employee's name
LongCorpus(n) ==
    [i \in 1..n |-> (IF i % 5 = 0 THEN <<"z", "z", " ">> ELSE <<"J", "o", " ">>) \o Numeral(i)]
LongLens == 100..102
Corpora == ShortCorpora \cup {LongCorpus(n) : n \in LongLens}
\* the corpus file: its lines joined by newlines, with or without a last newline
EmailTexts == {join_lines(c) : c \in Corpora} \cup {join_lines(c) \o <<"\n">> : c \in Corpora}

Names == { <<>>, <<"J", "o">> }
Amounts == { <<>>, <<"A", "1">>, <<" ", "7", " ">> }
Descriptions ==
    { <<>>, <<"a", "b", "b", "a">>, <<"P", "a", "r", "a", " ", "B", "A", "B", "A", "B", "-", "a", "b", "a">>,
      <<"a", "b", "b", "a", "-", "b", "a", "b", "a", "b">>, <<"d", "e", " ", "g", "a", "s", "t", "o">> }

InitLinker ==
    /\ policyFile = NoFile
    /\ indexFile = NoFile
    /\ proc = [p \in Procs |-> IdleProc]
    /\ obs = [p \in Procs |-> NoObs]
    /\ quietWrites = 0
    /\ budget = [calls |-> [p \in Procs |-> MaxCalls], edits |-> MaxEdits]
    /\ emailsFile \in {NoFile} \cup {File(t) : t \in EmailTexts}
    /\ transFile = NoFile
    /\ trace = <<>>

\* find_related_emails(employee_name, amount, description) is called
CallFindRelatedEmails(p) ==
    /\ proc[p].pc = "idle"
    /\ \E employee_name \in Names, amount \in Amounts, description \in Descriptions :
          Set(p, [IdleProc EXCEPT !.pc = "F_run", !.op = "find_related_emails",
                     !.args = [employee_name |-> employee_name, amount |-> amount,
                               description |-> description]])
    /\ UNCHANGED <<policyFile, indexFile, obs, quietWrites>>

\* lines 55-91
FindRelatedEmails(p) ==
    /\ proc[p].pc = "F_run"
    /\ IF ~emailsFile.exists THEN Raise(p, "FileNotFoundError")
       ELSE Set(p, [proc[p] EXCEPT !.pc = "done",
                       !.value = find_related_emails(emailsFile.content, proc[p].args.employee_name,
                                                     proc[p].args.amount, proc[p].args.description)])
    /\ UNCHANGED <<policyFile, indexFile, obs, quietWrites>>

NextLinker ==
    \/ CallFindRelatedEmails(1) /\ UNCHANGED <<budget, emailsFile, transFile, trace>>
    \/ FindRelatedEmails(1) /\ UNCHANGED <<budget, emailsFile, transFile, trace>>
    \/ Return(1) /\ UNCHANGED <<budget, emailsFile, transFile, trace>>
SpecLinker == InitLinker /\ [][NextLinker]_vars

(***************************************************************************)
(* SpecJson: clean_json on well-formed objects between noise               *)
(***************************************************************************)
Objects ==
    { <<"{", "}">>, <<"{", "\"", "k", "\"", ":", "1", "}">>, <<"{", " ", "\"", "k", "\"", " ", ":", " ", "1", " ", "}">>,
      <<"{", "\"", "k", "\"", ":", "{", "}", "}">>,
      <<"{", "\"", "k", "\"", ":", "{", "\"", "x", "\"", ":", "1", "}", "}">>,
      <<"{", "\"", "k", "\"", ":", "1", ",", "\"", "x", "\"", ":", "{", "}", "}">>,
      <<"{", "\"", "k", "\"", ":", "[", "1", "]", "}">>,
      <<"{", "\"", "k", "\"", ":", "\"", "}", "\"", "}">>,
      <<"{", "\"", "k", "\"", ":", "\"", "{", "\"", "}">> }
LeadingAlphabet == {"x", " ", "[", "\"", "}", "1"}
TrailingAlphabet == LeadingAlphabet \cup {"{", "]"}
LeadingNoise == UNION {[1..n -> LeadingAlphabet] : n \in 0..MaxNoise}
TrailingNoise == UNION {[1..n -> TrailingAlphabet] : n \in 0..MaxNoise}
\* every short text, and texts that are a bare value, unbalanced, balanced
\* but not parseable, or without a brace
ReplyAlphabet == {"{", "}", "\"", "k", ":", "1", " "}
ShortReplies == UNION {[1..n -> ReplyAlphabet] : n \in 0..MaxReplyLen}
OtherReplies ==
    { <<"t", "r", "u", "e">>, <<"n", "u", "l", "l">>, <<"[", "t", "r", "u", "e", "]">>,
      <<"\"", "k", "\"">>, <<"1", "1">>,
      <<"n", "o", "t", " ", "j", "s", "o", "n">>, <<"{", "\"", "k", "\"", ":", "1">>,
      <<"x", " ", "{", "\"", "k", "\"", ":", "}", " ", "x">>,
      <<"{", "\"", "k", "\"", ":", "n", "u", "l", "l", "}", " ", "x">>,
      <<"x", "{", "\"", "k", "\"", ":", "f", "a", "l", "s", "e", ",", "\"", "x", "\"", ":", "[", "]", "}">>,
      <<"{", "\"", "k", "\"", ":", "{", "\"", "x", "\"", ":", "1", "}", " ", "x">> }
Replies ==
    {l \o o \o t : l \in LeadingNoise, o \in Objects, t \in TrailingNoise}
        \cup ShortReplies \cup OtherReplies

InitJson ==
    /\ policyFile = NoFile
    /\ indexFile = NoFile
    /\ proc = [p \in Procs |-> IdleProc]
    /\ obs = [p \in Procs |-> NoObs]
    /\ quietWrites = 0
    /\ budget = [calls |-> [p \in Procs |-> MaxCalls], edits |-> MaxEdits]
    /\ emailsFile = NoFile
    /\ transFile = NoFile
    /\ trace = <<>>

\* clean_json(txt) is called
CallCleanJson(p) ==
    /\ proc[p].pc = "idle"
    /\ \E txt \in Replies :
          Set(p, [IdleProc EXCEPT !.pc = "J_run", !.op = "clean_json", !.args = [txt |-> txt]])
    /\ UNCHANGED <<policyFile, indexFile, obs, quietWrites>>

\* lines 59-92
CleanJson(p) ==
    /\ proc[p].pc = "J_run"
    /\ IF clean_json(proc[p].args.txt).exc = "none"
       THEN Set(p, [proc[p] EXCEPT !.pc = "done", !.value = clean_json(proc[p].args.txt).value])
       ELSE Raise(p, clean_json(proc[p].args.txt).exc)
    /\ UNCHANGED <<policyFile, indexFile, obs, quietWrites>>

\* llm_json(prompt, system) is called
CallLlmJson(p) ==
    /\ proc[p].pc = "idle"
    /\ Set(p, [IdleProc EXCEPT !.pc = "G_call", !.op = "llm_json"])
    /\ UNCHANGED <<policyFile, indexFile, obs, quietWrites>>

\* lines 119-126: the generation call answers with a text or fails
GenerationFrom(p, replies) ==
    /\ proc[p].pc = "G_call"
    /\ \/ \E content \in replies : Set(p, [proc[p] EXCEPT !.pc = "G_parse", !.txt = strip(content)])
       \/ Raise(p, "APIError")
    /\ UNCHANGED <<policyFile, indexFile, obs, quietWrites>>
GenerationCall(p) == GenerationFrom(p, Replies)

\* lines 129-135
LlmJsonParse(p) ==
    /\ proc[p].pc = "G_parse"
    /\ IF llm_json(proc[p].txt).exc = "none"
       THEN Set(p, [proc[p] EXCEPT !.pc = "done", !.value = llm_json(proc[p].txt).value])
       ELSE Raise(p, llm_json(proc[p].txt).exc)
    /\ UNCHANGED <<policyFile, indexFile, obs, quietWrites>>

NextJson ==
    \/ CallCleanJson(1) /\ UNCHANGED <<budget, emailsFile, transFile, trace>>
    \/ CleanJson(1) /\ UNCHANGED <<budget, emailsFile, transFile, trace>>
    \/ CallLlmJson(1) /\ UNCHANGED <<budget, emailsFile, transFile, trace>>
    \/ GenerationCall(1) /\ UNCHANGED <<budget, emailsFile, transFile, trace>>
    \/ LlmJsonParse(1) /\ UNCHANGED <<budget, emailsFile, transFile, trace>>
    \/ Return(1) /\ UNCHANGED <<budget, emailsFile, transFile, trace>>
SpecJson == InitJson /\ [][NextJson]_vars

(***************************************************************************)
(* The record llm_json returns, as its callers read it                     *)
(***************************************************************************)
Quote(s) == <<"\"">> \o s \o <<"\"">>
JsonFalse == <<"f", "a", "l", "s", "e">>
JsonTrue == <<"t", "r", "u", "e">>
JsonNull == <<"n", "u", "l", "l">>
EmptyString == Quote(<<>>)
EmptyList == <<"[", "]">>
EmptyDict == <<"{", "}">>

\* isinstance(value, dict): only a dict has the method get
is_dict(value) == value # <<>> /\ value[1] = "{"

\* the value of the last member named key from position i on, found when there is none
RECURSIVE GetMember(_, _, _, _)
GetMember(obj, i, key, found) ==
    LET Member(k) ==
            LET Value(v) ==
                    LET now == IF k.out = Quote(key) THEN v.out ELSE found
                    IN  IF CharAt(obj, v.next) = "," THEN GetMember(obj, v.next + 1, key, now) ELSE now
            IN  Force(Value, ParseValue(obj, k.next + 1))
    IN  Force(Member, ParseString(obj, i))
\* obj.get(key, default) of a dict
dict_get(obj, key, default) ==
    IF obj = EmptyDict THEN default ELSE GetMember(obj, 2, key, default)

\* bool(value): false for False, None, "", [], {} (the model's numbers are not 0)
bool(value) == value \notin {JsonFalse, JsonNull, EmptyString, EmptyList, EmptyDict}

\* the keys of the records
violation == <<"v", "i", "o", "l", "a", "t", "i", "o", "n">>
reason == <<"r", "e", "a", "s", "o", "n">>
policy_evidence == <<"p", "o", "l", "i", "c", "y", "_", "e", "v", "i", "d", "e", "n", "c", "e">>
fraud_suspected == <<"f", "r", "a", "u", "d", "_", "s", "u", "s", "p", "e", "c", "t", "e", "d">>
justification == <<"j", "u", "s", "t", "i", "f", "i", "c", "a", "t", "i", "o", "n">>
email_evidence == <<"e", "m", "a", "i", "l", "_", "e", "v", "i", "d", "e", "n", "c", "e">>

(***************************************************************************)
(* SpecBatch: run_simple_fraud_check and run_contextual_fraud_check over   *)
(* the rows of the transactions file.  An item retrieves with the actions  *)
(* of retrieve_relevant and asks with the actions of llm_json; "at" is the *)
(* position of the item the call returns to.                               *)
(***************************************************************************)
\* row.get(key, default) of a row csv.DictReader made
row_get(row, key, default) == IF key \in DOMAIN row THEN row[key] ELSE default
\* a or b
Or(a, b) == IF a # <<>> THEN a ELSE b

\* the rows of the file: with the headers in Portuguese, in English, and a row
\* whose employee is one space
RowPt ==
    [funcionario |-> <<"J", "o">>, valor |-> <<"a", "b">>, descricao |-> <<"a", "b", "b", "a">>,
     categoria |-> <<"b">>]
RowEn == [employee |-> <<"q">>, amount |-> <<"a", "b">>, description |-> <<>>, categoria |-> <<"a">>]
RowBlank == [funcionario |-> <<" ">>, valor |-> <<>>, descricao |-> <<>>, categoria |-> <<>>]
RowPool == {RowPt, RowEn, RowBlank}
RowLists == UNION {[1..n -> RowPool] : n \in 0..MaxRows}
\* max_rows: None or a small int
MaxRowsArgs == {[given |-> FALSE, n |-> 0]} \cup {[given |-> TRUE, n |-> 1]}

\* the e-mails: a line with Jo and the amount, a line of one space and a line without either
BatchEmails == <<"J", "o", "a", "b", "\n", " ", "\n", "z", "z">>
\* the files the batch finds: the policy and its index both missing, the index
\* missing, the index cut to nothing, the e-mails missing, the e-mails empty
BatchWorlds ==
    { [policy |-> NoFile, index |-> NoFile, emails |-> File(BatchEmails)],
      [policy |-> File(Doc1), index |-> NoFile, emails |-> File(BatchEmails)],
      [policy |-> File(Doc1), index |-> File(<<>>), emails |-> File(BatchEmails)],
      [policy |-> File(Doc1), index |-> IndexFileOf(Doc1), emails |-> NoFile],
      [policy |-> File(Doc1), index |-> IndexFileOf(Doc1), emails |-> File(<<>>)] }

\* the replies of the generation call
Member(key, value) == Quote(key) \o <<":">> \o value
\* every field of its kind
ReplyFull ==
    <<"{">> \o Member(violation, JsonTrue) \o <<",">> \o Member(fraud_suspected, JsonTrue)
        \o <<",">> \o Member(reason, Quote(<<"k">>)) \o <<",">> \o Member(justification, Quote(<<"k">>))
        \o <<",">> \o Member(email_evidence, <<"[">> \o Quote(<<"x">>) \o <<"]">>)
        \o <<",">> \o Member(policy_evidence, <<"[">> \o Quote(<<"k">>) \o <<"]">>) \o <<"}">>
\* every field of the wrong kind: the flags strings, the texts null and a
\* number, the evidence a string and an object
ReplyMalformed ==
    <<"{">> \o Member(violation, Quote(JsonFalse)) \o <<",">> \o Member(fraud_suspected, Quote(JsonFalse))
        \o <<",">> \o Member(reason, JsonNull) \o <<",">> \o Member(justification, <<"1">>)
        \o <<",">> \o Member(policy_evidence, Quote(<<"k">>)) \o <<",">> \o Member(email_evidence, EmptyDict)
        \o <<"}">>
\* an empty record, a full one, a malformed one, and a list in place of the record
BatchReplies == { EmptyDict, ReplyFull, ReplyMalformed, <<"[", "1", "]">> }

InitBatch ==
    /\ \E w \in BatchWorlds : policyFile = w.policy /\ indexFile = w.index /\ emailsFile = w.emails
    /\ proc = [p \in Procs |-> IdleProc]
    /\ obs = [p \in Procs |-> NoObs]
    /\ quietWrites = 0
    /\ budget = [calls |-> [p \in Procs |-> MaxCalls], edits |-> MaxEdits]
    /\ transFile \in {NoFile} \cup {File(rows) : rows \in RowLists}
    /\ trace = <<>>

\* one thing the batch call did: item i begun, a component called, the result
\* appended or the item skipped
Event(ev, i, k) == [ev |-> ev, i |-> i, k |-> k]
Log(ev, i, k) == trace' = Append(trace, Event(ev, i, k))

\* run_simple_fraud_check(max_rows) or run_contextual_fraud_check(max_rows) is called
CallRunFraudCheck(p) ==
    /\ proc[p].pc = "idle"
    /\ \E op \in {"run_simple_fraud_check", "run_contextual_fraud_check"}, max_rows \in MaxRowsArgs :
          Set(p, [IdleProc EXCEPT !.pc = "T_load", !.op = op, !.args = [max_rows |-> max_rows]])
    /\ trace' = <<>>
    /\ UNCHANGED <<policyFile, indexFile, obs, quietWrites>>

\* simple lines 106-113, contextual lines 190-197: _load_transactions(), rows[:max_rows]
LoadTransactions(p) ==
    /\ proc[p].pc = "T_load"
    /\ IF ~transFile.exists THEN Raise(p, "FileNotFoundError")
       ELSE Set(p, [proc[p] EXCEPT !.pc = "T_next", !.i = 1, !.results = <<>>,
                       !.rows = IF proc[p].args.max_rows.given
                                THEN Slice(transFile.content, proc[p].args.max_rows.n)
                                ELSE transFile.content])
    /\ UNCHANGED <<policyFile, indexFile, obs, quietWrites, trace>>

\* simple lines 116-117, 126, contextual lines 200-201, 210: the next row, or return results
NextRow(p) ==
    /\ proc[p].pc = "T_next"
    /\ IF proc[p].i > Len(proc[p].rows)
       THEN /\ Set(p, [proc[p] EXCEPT !.pc = "done", !.at = "none"])
            /\ UNCHANGED trace
       ELSE /\ Set(p, [proc[p] EXCEPT !.pc = "T_item", !.at = "T_item"])
            /\ Log("begin", proc[p].i, 0)
    /\ UNCHANGED <<policyFile, indexFile, obs, quietWrites>>

\* the locals of the item are gone and the loop goes to the next row
NextItem(rec) ==
    [rec EXCEPT !.pc = "T_next", !.at = "none", !.i = @ + 1, !.exc = "none", !.value = <<>>,
                !.txt = <<>>, !.query = <<>>, !.k = 0, !.scored = <<>>, !.result = <<>>,
                !.idx = <<>>, !.ret = "done", !.force = FALSE, !.old_sha = "", !.chunks = <<>>,
                !.data = NoData]

\* the loop without its try: the exception leaves the batch call
ItemExceptPropagates(p, e) ==
    /\ Set(p, [proc[p] EXCEPT !.pc = "done", !.at = "none", !.exc = e])
    /\ UNCHANGED trace
\* simple lines 121-124, contextual lines 205-208: except Exception: print, continue
ItemExcept(p, e) ==
    /\ Set(p, NextItem(proc[p]))
    /\ Log("skipped", proc[p].i, 0)

\* simple line 120, contextual line 204: results.append(res)
ItemAppend(p, res) ==
    /\ Set(p, NextItem([proc[p] EXCEPT !.results = Append(@, res)]))
    /\ Log("appended", proc[p].i, 0)

\* the row of the item
Row(p) == proc[p].rows[proc[p].i]

\* retrieve_relevant(query, k) is called by the item, line 106: build_index(force=False)
ItemRetrieve(p, query, k) ==
    /\ Set(p, [proc[p] EXCEPT !.pc = "B_exists", !.at = "T_ask", !.ret = "L_exists",
                              !.query = query, !.k = k])
    /\ EnterBuild(p)
    /\ Log("retrieve_relevant", proc[p].i, k)

\* simple lines 54-57: docs = retrieve_relevant(f"{descricao} {categoria} {valor}", k=3)
SimpleRetrieve(p) ==
    /\ proc[p].pc = "T_item"
    /\ proc[p].op = "run_simple_fraud_check"
    /\ ItemRetrieve(p, row_get(Row(p), "descricao", <<>>) \o <<" ">>
                          \o row_get(Row(p), "categoria", <<>>) \o <<" ">>
                          \o row_get(Row(p), "valor", <<>>), 3)
    /\ UNCHANGED <<policyFile, indexFile, quietWrites>>

\* contextual lines 108-110
employee_of(row) == Or(row_get(row, "funcionario", <<>>), row_get(row, "employee", <<>>))
amount_of(row) == Or(row_get(row, "valor", <<>>), row_get(row, "amount", <<>>))
description_of(row) == Or(row_get(row, "descricao", <<>>), row_get(row, "description", <<>>))

\* contextual line 113: emails_context = find_related_emails(employee, str(amount), description)
ContextualLink(p) ==
    /\ proc[p].pc = "T_item"
    /\ proc[p].op = "run_contextual_fraud_check"
    /\ Set(p, [proc[p] EXCEPT !.pc = "F_run", !.at = "T_linked",
                  !.args = [employee_name |-> employee_of(Row(p)), amount |-> amount_of(Row(p)),
                            description |-> description_of(Row(p))]])
    /\ Log("find_related_emails", proc[p].i, 0)
    /\ UNCHANGED <<policyFile, indexFile, obs, quietWrites>>

\* the call the item made has returned or raised
ItemResume(p) ==
    /\ proc[p].pc = "done"
    /\ proc[p].at # "none"
    /\ IF proc[p].exc # "none"
       THEN ItemExcept(p, proc[p].exc)
       ELSE Set(p, [proc[p] EXCEPT !.pc = proc[p].at]) /\ UNCHANGED trace
    /\ UNCHANGED <<policyFile, indexFile, obs, quietWrites>>

NoEmail == <<"N", "e", "n", "h", "u", "m", " ", "e", "-", "m", "a", "i", "l", " ", "r", "e", "l", "a", "c",
      "i", "o", "n", "a", "d", "o", " ", "f", "o", "i", " ", "e", "n", "c", "o", "n", "t", "r", "a",
      "d", "o", " ", "p", "a", "r", "a", " ", "e", "s", "t", "a", " ", "t", "r", "a", "n", "s", "a",
      "ç", "ã", "o", ".">>
\* contextual lines 117-123
no_email_result(row) ==
    [row |-> row, fraud_suspected |-> FALSE, justification |-> Quote(NoEmail),
     email_evidence |-> EmptyList, policy_evidence |-> EmptyList]

\* variant of ContextualLinked: the policy is retrieved whatever the e-mails are
ContextualLinkedAlwaysAsks(p) ==
    /\ proc[p].pc = "T_linked"
    /\ ItemRetrieve(p, row_get(Row(p), "descricao", <<>>) \o <<" ">>
                          \o row_get(Row(p), "categoria", <<>>) \o <<" ">> \o amount_of(Row(p)), 2)
    /\ UNCHANGED <<policyFile, indexFile, quietWrites>>
\* contextual lines 116-129: without related e-mails the row is not suspected,
\* else policy_docs = retrieve_relevant(f"{descricao} {categoria} {amount}", k=2)
ContextualLinked(p) ==
    /\ proc[p].pc = "T_linked"
    /\ IF strip(proc[p].value) = <<>>
       THEN ItemAppend(p, no_email_result(Row(p))) /\ UNCHANGED obs
       ELSE ItemRetrieve(p, row_get(Row(p), "descricao", <<>>) \o <<" ">>
                               \o row_get(Row(p), "categoria", <<>>) \o <<" ">> \o amount_of(Row(p)), 2)
    /\ UNCHANGED <<policyFile, indexFile, quietWrites>>

\* simple line 84, contextual line 166: result = llm_json(user_prompt, system=SYSTEM_PROMPT)
ItemAsk(p) ==
    /\ proc[p].pc = "T_ask"
    /\ Set(p, [proc[p] EXCEPT !.pc = "G_call", !.at = "T_result"])
    /\ Log("llm_json", proc[p].i, 0)
    /\ UNCHANGED <<policyFile, indexFile, obs, quietWrites>>

\* llm_client lines 119-126, inside an item
ItemGeneration(p) == GenerationFrom(p, BatchReplies)

\* simple lines 87-92
simple_result(row, result) ==
    [row |-> row, violation |-> bool(dict_get(result, violation, JsonFalse)),
     reason |-> dict_get(result, reason, EmptyString),
     policy_evidence |-> dict_get(result, policy_evidence, EmptyList)]
\* contextual lines 169-175
contextual_result(row, result) ==
    [row |-> row, fraud_suspected |-> bool(dict_get(result, fraud_suspected, JsonFalse)),
     justification |-> dict_get(result, justification, EmptyString),
     email_evidence |-> dict_get(result, email_evidence, EmptyList),
     policy_evidence |-> dict_get(result, policy_evidence, EmptyList)]

\* simple lines 87-92, contextual lines 169-175: result.get of what llm_json returned
ItemResult(p) ==
    /\ proc[p].pc = "T_result"
    /\ IF ~is_dict(proc[p].value) THEN ItemExcept(p, "AttributeError")
       ELSE IF proc[p].op = "run_simple_fraud_check"
       THEN ItemAppend(p, simple_result(Row(p), proc[p].value))
       ELSE ItemAppend(p, contextual_result(Row(p), proc[p].value))
    /\ UNCHANGED <<policyFile, indexFile, obs, quietWrites>>

\* the batch call has returned or raised
BatchReturn(p) == proc[p].at = "none" /\ Return(p) /\ UNCHANGED trace

NextBatch ==
    \/ CallRunFraudCheck(1) /\ UNCHANGED <<budget, emailsFile, transFile>>
    \/ LoadTransactions(1) /\ UNCHANGED <<budget, emailsFile, transFile>>
    \/ NextRow(1) /\ UNCHANGED <<budget, emailsFile, transFile>>
    \/ SimpleRetrieve(1) /\ UNCHANGED <<budget, emailsFile, transFile>>
    \/ ContextualLink(1) /\ UNCHANGED <<budget, emailsFile, transFile>>
    \/ FindRelatedEmails(1) /\ UNCHANGED <<budget, emailsFile, transFile, trace>>
    \/ ContextualLinked(1) /\ UNCHANGED <<budget, emailsFile, transFile>>
    \/ BuildExists(1) /\ UNCHANGED <<budget, emailsFile, transFile, trace>>
    \/ BuildRead(1) /\ UNCHANGED <<budget, emailsFile, transFile, trace>>
    \/ BuildCompare(1) /\ UNCHANGED <<budget, emailsFile, transFile, trace>>
    \/ BuildChunk(1) /\ UNCHANGED <<budget, emailsFile, transFile, trace>>
    \/ BuildMeta(1) /\ UNCHANGED <<budget, emailsFile, transFile, trace>>
    \/ BuildOpen(1) /\ UNCHANGED <<budget, emailsFile, transFile, trace>>
    \/ BuildWrite(1) /\ UNCHANGED <<budget, emailsFile, transFile, trace>>
    \/ LoadExists(1) /\ UNCHANGED <<budget, emailsFile, transFile, trace>>
    \/ LoadRead(1) /\ UNCHANGED <<budget, emailsFile, transFile, trace>>
    \/ Score(1) /\ UNCHANGED <<budget, emailsFile, transFile, trace>>
    \/ ItemResume(1) /\ UNCHANGED <<budget, emailsFile, transFile>>
    \/ ItemAsk(1) /\ UNCHANGED <<budget, emailsFile, transFile>>
    \/ ItemGeneration(1) /\ UNCHANGED <<budget, emailsFile, transFile, trace>>
    \/ LlmJsonParse(1) /\ UNCHANGED <<budget, emailsFile, transFile, trace>>
    \/ ItemResult(1) /\ UNCHANGED <<budget, emailsFile, transFile>>
    \/ BatchReturn(1) /\ UNCHANGED <<budget, emailsFile, transFile>>
SpecBatch == InitBatch /\ [][NextBatch]_vars

(***************************************************************************)
(* SpecConspiracy: check_conspiracy over the chunks of the e-mails file    *)
(***************************************************************************)
\* the keys of the record
conspiracy == <<"c", "o", "n", "s", "p", "i", "r", "a", "c", "y">>
evidence_snippets == <<"e", "v", "i", "d", "e", "n", "c", "e", "_", "s", "n", "i", "p", "p", "e", "t", "s">>

\* the elements of a list, from position i on
RECURSIVE ElementsFrom(_, _)
ElementsFrom(txt, i) ==
    LET Element(v) ==
            <<v.out>> \o (IF CharAt(txt, v.next) = "," THEN ElementsFrom(txt, v.next + 1) ELSE <<>>)
    IN  Force(Element, ParseValue(txt, i))
\* the keys of a dict, from position i on
RECURSIVE KeysFrom(_, _)
KeysFrom(obj, i) ==
    LET Key(k) ==
            LET Value(v) ==
                    <<k.out>> \o (IF CharAt(obj, v.next) = "," THEN KeysFrom(obj, v.next + 1) ELSE <<>>)
            IN  Force(Value, ParseValue(obj, k.next + 1))
    IN  Force(Key, ParseString(obj, i))
\* whether list.extend takes the value: a list, a str or a dict can be iterated
iterable(value) == value[1] \in {"[", "\"", "{"}
\* what list.extend(value) adds: the elements of a list, the characters of a
\* str, the keys of a dict
iter(value) ==
    IF value \in {EmptyList, EmptyString, EmptyDict} THEN <<>>
    ELSE IF value[1] = "[" THEN ElementsFrom(value, 2)
    ELSE IF value[1] = "\"" THEN [j \in 1..(Len(value) - 2) |-> Quote(<<value[j + 1]>>)]
    ELSE KeysFrom(value, 2)

\* conspiracy_detector lines 25-36, the loop
RECURSIVE ChunkTextLoop(_, _, _)
ChunkTextLoop(text, max_chars, parts) ==
    IF Len(text) > max_chars
    THEN ChunkTextLoop(SubSeq(text, max_chars + 1, Len(text)), max_chars,
                       Append(parts, SubSeq(text, 1, max_chars)))
    ELSE IF text # <<>> THEN Append(parts, text) ELSE parts
\* _chunk_text(text, max_chars)
chunk_text(text, max_chars) == ChunkTextLoop(text, max_chars, <<>>)

\* the e-mails: every text of at most MaxEmailLen characters, its characters in turn
EmailLetters == <<"a", "b", "c", "d", "e">>
ConspiracyEmails == {[j \in 1..n |-> EmailLetters[((j - 1) % Len(EmailLetters)) + 1]] : n \in 0..MaxEmailLen}

\* the replies: conspiracy with two snippets, with none named, with a flag
\* that is a non-empty string, with snippets that are null; no conspiracy
\* with a snippet; an empty record; a list in place of the record
Snippets(a, b) == <<"[">> \o Quote(<<a>>) \o <<",">> \o Quote(<<b>>) \o <<"]">>
ConspiracyReplies ==
    { <<"{">> \o Member(conspiracy, JsonTrue) \o <<",">> \o Member(evidence_snippets, Snippets("s", "t"))
          \o <<"}">>,
      <<"{">> \o Member(conspiracy, JsonTrue) \o <<"}">>,
      <<"{">> \o Member(conspiracy, Quote(<<"n", "o">>)) \o <<",">>
          \o Member(evidence_snippets, <<"[">> \o Quote(<<"u">>) \o <<"]">>) \o <<"}">>,
      <<"{">> \o Member(conspiracy, JsonTrue) \o <<",">> \o Member(evidence_snippets, JsonNull) \o <<"}">>,
      <<"{">> \o Member(conspiracy, JsonFalse) \o <<",">>
          \o Member(evidence_snippets, <<"[">> \o Quote(<<"v">>) \o <<"]">>) \o <<"}">>,
      EmptyDict, <<"[", "1", "]">> }

InitConspiracy ==
    /\ policyFile = NoFile
    /\ indexFile = NoFile
    /\ proc = [p \in Procs |-> IdleProc]
    /\ obs = [p \in Procs |-> NoObs]
    /\ quietWrites = 0
    /\ budget = [calls |-> [p \in Procs |-> MaxCalls], edits |-> MaxEdits]
    /\ emailsFile \in {NoFile} \cup {File(t) : t \in ConspiracyEmails}
    /\ transFile = NoFile
    /\ trace = <<>>

\* the record llm_json returned for chunk i
Answer(i, record) == [ev |-> "record", i |-> i, record |-> record]

\* check_conspiracy() is called
CallCheckConspiracy(p) ==
    /\ proc[p].pc = "idle"
    /\ Set(p, [IdleProc EXCEPT !.pc = "K_load", !.op = "check_conspiracy"])
    /\ trace' = <<>>
    /\ UNCHANGED <<policyFile, indexFile, obs, quietWrites>>

\* lines 45-53: raw = _load_emails_text(); chunks = _chunk_text(raw, max_chars=2500);
\* evidence = []; conspiracy_flag = False
LoadEmails(p) ==
    /\ proc[p].pc = "K_load"
    /\ IF ~emailsFile.exists THEN Raise(p, "FileNotFoundError")
       ELSE Set(p, [proc[p] EXCEPT !.pc = "K_next", !.i = 1, !.results = <<>>, !.flag = FALSE,
                                   !.chunks = chunk_text(emailsFile.content, MaxChars)])
    /\ UNCHANGED <<policyFile, indexFile, obs, quietWrites, trace>>

\* lines 83-89
conspiracy_result(flag, evidence) ==
    [conspiracy |-> flag,
     justification |-> IF flag THEN "Foram encontrados indícios em blocos analisados."
                       ELSE "Nenhum bloco apresentou sinais de conspiração.",
     evidence_snippets |-> evidence]

\* lines 56-75, 83-89: the next chunk is sent to llm_json, or the result is returned
NextEmailChunk(p) ==
    /\ proc[p].pc = "K_next"
    /\ IF proc[p].i > Len(proc[p].chunks)
       THEN /\ Set(p, [proc[p] EXCEPT !.pc = "done", !.at = "none",
                          !.result = conspiracy_result(proc[p].flag, proc[p].results)])
            /\ UNCHANGED trace
       ELSE /\ Set(p, [proc[p] EXCEPT !.pc = "G_call", !.at = "K_record"])
            /\ Log("llm_json", proc[p].i, 0)
    /\ UNCHANGED <<policyFile, indexFile, obs, quietWrites>>

\* llm_client lines 119-126, inside a chunk
ChunkGeneration(p) == GenerationFrom(p, ConspiracyReplies)

\* an exception of the chunk leaves check_conspiracy: the loop has no try
ChunkRaise(p, e) == Set(p, [proc[p] EXCEPT !.pc = "done", !.at = "none", !.exc = e])

\* llm_json has returned or raised
ChunkResume(p) ==
    /\ proc[p].pc = "done"
    /\ proc[p].at # "none"
    /\ IF proc[p].exc # "none" THEN ChunkRaise(p, proc[p].exc) ELSE Set(p, [proc[p] EXCEPT !.pc = proc[p].at])
    /\ UNCHANGED <<policyFile, indexFile, obs, quietWrites, trace>>

\* the chunk is done and the loop goes on
ChunkDone(rec) == [rec EXCEPT !.pc = "K_next", !.at = "none", !.i = @ + 1, !.value = <<>>, !.txt = <<>>]

\* variant of ChunkRecord: the flag and the evidence follow the last chunk
ChunkRecordLast(p) ==
    /\ proc[p].pc = "K_record"
    /\ LET res == proc[p].value IN
       IF ~is_dict(res) THEN ChunkRaise(p, "AttributeError") /\ UNCHANGED trace
       ELSE IF ~iterable(dict_get(res, evidence_snippets, EmptyList))
       THEN ChunkRaise(p, "TypeError") /\ UNCHANGED trace
       ELSE /\ Set(p, ChunkDone([proc[p] EXCEPT
                         !.flag = bool(dict_get(res, conspiracy, JsonNull)),
                         !.results = @ \o iter(dict_get(res, evidence_snippets, EmptyList))]))
            /\ trace' = Append(trace, Answer(proc[p].i, res))
    /\ UNCHANGED <<policyFile, indexFile, obs, quietWrites>>
\* lines 78-80: if res.get("conspiracy"): conspiracy_flag = True;
\* evidence.extend(res.get("evidence_snippets", []))
ChunkRecord(p) ==
    /\ proc[p].pc = "K_record"
    /\ LET res == proc[p].value IN
       IF ~is_dict(res) THEN ChunkRaise(p, "AttributeError") /\ UNCHANGED trace
       ELSE IF ~bool(dict_get(res, conspiracy, JsonNull))
       THEN /\ Set(p, ChunkDone(proc[p]))
            /\ trace' = Append(trace, Answer(proc[p].i, res))
       ELSE IF ~iterable(dict_get(res, evidence_snippets, EmptyList))
       THEN ChunkRaise(p, "TypeError") /\ UNCHANGED trace
       ELSE /\ Set(p, ChunkDone([proc[p] EXCEPT
                         !.flag = TRUE,
                         !.results = @ \o iter(dict_get(res, evidence_snippets, EmptyList))]))
            /\ trace' = Append(trace, Answer(proc[p].i, res))
    /\ UNCHANGED <<policyFile, indexFile, obs, quietWrites>>

NextConspiracy ==
    \/ CallCheckConspiracy(1) /\ UNCHANGED <<budget, emailsFile, transFile>>
    \/ LoadEmails(1) /\ UNCHANGED <<budget, emailsFile, transFile>>
    \/ NextEmailChunk(1) /\ UNCHANGED <<budget, emailsFile, transFile>>
    \/ ChunkGeneration(1) /\ UNCHANGED <<budget, emailsFile, transFile, trace>>
    \/ LlmJsonParse(1) /\ UNCHANGED <<budget, emailsFile, transFile, trace>>
    \/ ChunkResume(1) /\ UNCHANGED <<budget, emailsFile, transFile>>
    \/ ChunkRecord(1) /\ UNCHANGED <<budget, emailsFile, transFile>>
    \/ BatchReturn(1) /\ UNCHANGED <<budget, emailsFile, transFile>>
SpecConspiracy == InitConspiracy /\ [][NextConspiracy]_vars

(***************************************************************************)
(* Properties of build_index                                               *)
(***************************************************************************)
BuildPcs == {"B_exists", "B_read", "B_sha", "B_chunk", "B_meta", "B_open", "B_write"}
\* the positions a call is at after its build_index call has returned
AfterBuildPcs == {"L_exists", "L_read", "R_score", "done"}

\* p is inside build_index(force=False) and found, on entry, an index
\* whose fingerprint is the source's
CacheHit(p) ==
    /\ proc[p].pc \in BuildPcs
    /\ ~proc[p].force
    /\ obs[p].index = "current"

\* C1: a call of build_index(force=False) that finds a persisted index with
\* the fingerprint of the current source chunks nothing, embeds nothing,
\* writes nothing, raises nothing, and no step of it changes the index file.
C1_CacheHitIsNoOp ==
    [][\A p \in Procs :
          CacheHit(p) =>
             /\ indexFile' = indexFile
             /\ obs'[p].chunked = 0 /\ obs'[p].embedded = 0 /\ obs'[p].writes = 0
             /\ proc'[p].exc = "none"]_vars

\* a direct build_index(force=False) has returned from a cache hit
C1_Witness ==
    /\ proc[1].pc = "done" /\ proc[1].op = "build_index" /\ ~proc[1].force
    /\ obs[1].index = "current" /\ proc[1].exc = "none"
    /\ proc[1].old_sha = file_sha1(policyFile.content)

\* the persisted index is complete and is exactly the index of the text:
\* the text's fingerprint, the chunker's output in order with dense ids,
\* each chunk with the embedding of its own text, and nothing else
IsIndexOf(file, text) ==
    /\ file.exists
    /\ WellFormed(file.content)
    /\ LET data == loads(file.content)
           cs   == chunk_policy(text, ChunkSize)
       IN  /\ data.meta.source_sha1 = file_sha1(text)
           /\ data.meta.num_chunks = Len(cs)
           /\ Len(data.chunks) = Len(cs)
           /\ \A i \in 1..Len(cs) :
                 /\ data.chunks[i].id = cs[i].id
                 /\ data.chunks[i].text = cs[i].text
                 /\ data.chunks[i].embedding = embed_text(cs[i].text)
           /\ Len(file.content) = Len(cs) + 2

\* C2: when build_index has returned normally from a call that found the
\* index absent or with another fingerprint than the source's (the source
\* not modified during the call), the persisted index is the complete index
\* of the current source and holds nothing of the previous one.
C2_RebuildOnMismatch ==
    \A p \in Procs :
       (/\ proc[p].pc \in AfterBuildPcs
        /\ proc[p].exc = "none"
        /\ obs[p].index \in {"absent", "stale"})
       => /\ policyFile.exists
          /\ IsIndexOf(indexFile, policyFile.content)
          /\ obs[p].chunked = 1 /\ obs[p].writes = 1

\* build_index(force=False) has replaced a stale index of three chunks by
\* the index of a source without chunks
C2_Witness ==
    /\ proc[1].pc = "done" /\ proc[1].op = "build_index" /\ ~proc[1].force
    /\ proc[1].exc = "none"
    /\ obs[1].index = "stale" /\ obs[1].writes = 1
    /\ policyFile = File(Doc3)
    /\ Len(indexFile.content) = 2

\* C3 (as the specification states it): a call that finds a corrupt persisted
\* index and a present source does not fail but leaves the index of the source.
C3_CorruptIsCacheMiss ==
    \A p \in Procs :
       (/\ proc[p].pc = "done"
        /\ obs[p].index = "corrupt"
        /\ obs[p].source = "present")
       => /\ proc[p].exc = "none"
          /\ IsIndexOf(indexFile, policyFile.content)

\* C4 (as the specification states it): a call that finds the source missing
\* ends with FileNotFoundError, whatever the persisted index is, and has not
\* written the index.
C4_MissingSourceNotFound ==
    \A p \in Procs :
       (proc[p].pc = "done" /\ obs[p].source = "missing")
       => proc[p].exc = "FileNotFoundError" /\ obs[p].writes = 0

\* C5 (as the specification states it): whenever a process reads the index
\* file (line 62 or line 92) the file holds a complete index.
C5_ReaderSeesCompleteIndex ==
    [][\A p \in Procs :
          (proc[p].pc \in {"B_read", "L_read"} /\ proc'[p].pc # proc[p].pc /\ indexFile.exists)
          => WellFormed(indexFile.content)]_vars

\* both processes have run build_index to its end and each has written the index
BothBuilt ==
    \A p \in Procs :
       /\ proc[p].pc = "done" /\ proc[p].op = "build_index"
       /\ proc[p].exc = "none" /\ obs[p].writes = 1

\* C6 (as the specification states it): once two rebuilds have both
\* finished, the persisted index is the complete output of one of them.
C6_LastWriteWins ==
    BothBuilt => \E p \in Procs : indexFile.content = dumps(proc[p].data)

\* C7: over the calls of retrieve_relevant made since the files were last
\* changed from outside, the index is opened for writing at most once.
C7_AtMostOneBuild == quietWrites <= 1

\* a call of retrieve_relevant has ended without writing, after an earlier
\* call had built the index
C7_Witness ==
    /\ proc[1].pc = "done" /\ proc[1].op = "retrieve_relevant" /\ proc[1].exc = "none"
    /\ obs[1].index = "current" /\ obs[1].writes = 0
    /\ quietWrites = 1

(***************************************************************************)
(* Properties of retrieve_relevant                                         *)
(***************************************************************************)
\* retrieve_relevant has returned its result
Retrieved(p) ==
    proc[p].pc = "done" /\ proc[p].op = "retrieve_relevant" /\ proc[p].exc = "none"

Occurrences(seq, x) == Cardinality({j \in 1..Len(seq) : seq[j] = x})

\* what the specification states of a result for the k that was passed
AtMostK(p) ==
    /\ Len(proc[p].result) <= proc[p].k
    /\ proc[p].k >= Len(proc[p].idx) =>
          /\ Len(proc[p].result) = Len(proc[p].idx)
          /\ \A i \in 1..Len(proc[p].idx) : Occurrences(proc[p].result, proc[p].idx[i]) = 1
    /\ proc[p].idx = <<>> => proc[p].result = <<>>

\* C8 (as the specification states it): for every query and every k the
\* result has at most k chunks, all chunks once when k is at least their
\* number, none when the index is empty.
C8_AtMostK_EveryK == \A p \in Procs : Retrieved(p) => AtMostK(p)

\* C8, for the counts k >= 0: the result has at most k chunks, all chunks
\* of the index exactly once when k is at least their number, and none when
\* the index is empty.
C8_AtMostK == \A p \in Procs : (Retrieved(p) /\ proc[p].k >= 0) => AtMostK(p)

\* k = MaxK is at least the three chunks of the index and all three are returned
C8_Witness ==
    /\ Retrieved(1) /\ proc[1].k = MaxK
    /\ Len(proc[1].idx) = 3 /\ Len(proc[1].result) = 3

\* the similarity retrieve_relevant computes between the query and a chunk
ScoreOf(query, c) == cos_sim_of(embed_text(query), c.embedding)
\* c comes before d in the ranking: higher similarity, or equal similarity and lower id
RanksBefore(query, c, d) ==
    \/ FCmp(ScoreOf(query, c), ScoreOf(query, d)) > 0
    \/ FCmp(ScoreOf(query, c), ScoreOf(query, d)) = 0 /\ c.id < d.id

\* C9: the result (k >= 0) has min(k, n) chunks of the index, each comes
\* before the next in the ranking by similarity and then id, and each comes
\* before every chunk of the index that was not returned.
C9_RankedPrefix ==
    \A p \in Procs :
       (Retrieved(p) /\ proc[p].k >= 0) =>
          LET r == proc[p].result
              q == proc[p].query
          IN  /\ Len(r) = Min(proc[p].k, Len(proc[p].idx))
              /\ \A i \in 1..Len(r) : r[i] \in Range(proc[p].idx)
              /\ \A i \in 1..Len(r) : \A j \in (i + 1)..Len(r) : RanksBefore(q, r[i], r[j])
              /\ \A c \in Range(proc[p].idx) \ Range(r) :
                    \A i \in 1..Len(r) : RanksBefore(q, r[i], c)

\* two of three chunks are returned; they tie and are in the order of their ids
C9_Witness ==
    /\ Retrieved(1) /\ proc[1].k = 2
    /\ Len(proc[1].idx) = 3 /\ Len(proc[1].result) = 2
    /\ FCmp(ScoreOf(proc[1].query, proc[1].result[1]),
            ScoreOf(proc[1].query, proc[1].result[2])) = 0
    /\ proc[1].result[1].id < proc[1].result[2].id

\* C10 (as the specification states it): a query that is the text of a chunk
\* c scores c at least as high as every chunk, and with k >= 1 the first
\* result is c or a chunk of lower id with the same score.
C10_SelfSimilarityTop ==
    \A p \in Procs :
       Retrieved(p) =>
          \A c \in Range(proc[p].idx) :
             c.text = proc[p].query =>
                /\ \A d \in Range(proc[p].idx) :
                      FCmp(ScoreOf(proc[p].query, c), ScoreOf(proc[p].query, d)) >= 0
                /\ proc[p].k >= 1 =>
                      \/ proc[p].result[1] = c
                      \/ /\ proc[p].result[1].id < c.id
                         /\ FCmp(ScoreOf(proc[p].query, proc[p].result[1]),
                                 ScoreOf(proc[p].query, c)) = 0

\* u is a positive multiple of v: equality in the Cauchy-Schwarz inequality
Parallel(u, v) == Dot(u, v) > 0 /\ Dot(u, v) * Dot(u, v) = Dot(u, u) * Dot(v, v)

\* C10, with rounding taken into account: a query that is the text of a
\* chunk c scores c at least as high as every chunk whose embedding is not a
\* positive multiple of c's, and with k >= 1 the first result is c or a
\* chunk whose embedding is a positive multiple of c's.
C10_SelfSimilarity ==
    \A p \in Procs :
       Retrieved(p) =>
          \A c \in Range(proc[p].idx) :
             c.text = proc[p].query =>
                /\ \A d \in Range(proc[p].idx) :
                      ~Parallel(d.embedding, c.embedding) =>
                         FCmp(ScoreOf(proc[p].query, c), ScoreOf(proc[p].query, d)) >= 0
                /\ proc[p].k >= 1 =>
                      \/ proc[p].result[1] = c
                      \/ Parallel(proc[p].result[1].embedding, c.embedding)

\* the query is the text of chunk c; a chunk with the same proportions of
\* tokens scores higher than c and is returned first, a chunk with other
\* proportions scores lower than c
C10_Witness ==
    /\ Retrieved(1) /\ proc[1].k >= 1
    /\ \E c, d, e \in Range(proc[1].idx) :
          /\ c.text = proc[1].query
          /\ ~Parallel(d.embedding, c.embedding)
          /\ FCmp(ScoreOf(proc[1].query, c), ScoreOf(proc[1].query, d)) > 0
          /\ Parallel(e.embedding, c.embedding)
          /\ FCmp(ScoreOf(proc[1].query, e), ScoreOf(proc[1].query, c)) > 0
          /\ proc[1].result[1] = e

\* the embedding of a text without tokens
ZeroVector == embed_text(<<>>)
\* cos_sim of every query of the model with a vector of zero magnitude, in
\* either argument position
ZeroMagnitudeScores ==
    {cos_sim(embed_text(q), ZeroVector) : q \in Queries}
       \cup {cos_sim(ZeroVector, embed_text(q)) : q \in Queries}

\* C11: cos_sim is 0 when either vector has zero magnitude; a query without
\* tokens scores 0 against every chunk and the result (k >= 0) is the first
\* min(k, n) chunks of the index in index order.
C11_ZeroMagnitude ==
    /\ ZeroMagnitudeScores = {FZero}
    /\ \A p \in Procs :
          (Retrieved(p) /\ tokens(proc[p].query) = <<>>) =>
             /\ \A i \in 1..Len(proc[p].scored) : proc[p].scored[i].score = FZero
             /\ Len(proc[p].scored) = Len(proc[p].idx)
             /\ proc[p].k >= 0 =>
                   proc[p].result = SubSeq(proc[p].idx, 1, Min(proc[p].k, Len(proc[p].idx)))

\* the empty query on an index of three chunks, two asked for: chunks 0 and 1
C11_Witness ==
    /\ Retrieved(1) /\ proc[1].query = <<>> /\ proc[1].k = 2
    /\ Len(proc[1].idx) = 3
    /\ Len(proc[1].result) = 2
    /\ proc[1].result[1].id = 0 /\ proc[1].result[2].id = 1

(***************************************************************************)
(* Properties of _chunk_policy                                             *)
(***************************************************************************)
\* _chunk_policy has returned its chunks
Chunked(p) ==
    proc[p].pc = "done" /\ proc[p].op = "_chunk_policy" /\ proc[p].exc = "none"

\* the paragraphs of all chunks, in order
RECURSIVE PiecesOf(_, _)
PiecesOf(chunks, i) ==
    IF i > Len(chunks) THEN <<>>
    ELSE split_paragraphs(chunks[i].text) \o PiecesOf(chunks, i + 1)

\* C12: the chunk texts, split back on the blank-line separator and
\* concatenated over all chunks in order, are exactly the non-empty trimmed
\* paragraphs of the document in their order.
C12_ParagraphsPreserved ==
    \A p \in Procs :
       Chunked(p) => PiecesOf(proc[p].value, 1) = paragraphs_of(policyFile.content)

\* a text of three paragraphs, the last one to be trimmed, gives two chunks,
\* the first of two paragraphs
C12_Witness ==
    /\ Chunked(1)
    /\ policyFile.content = <<"a", "\n", "\n", "a", "\n", "\n", "\n", "a">>
    /\ proc[1].args.chunk_size = 4
    /\ Len(proc[1].value) = 2
    /\ proc[1].value[1].text = <<"a", "\n", "\n", "a">>
    /\ proc[1].value[2].text = <<"a">>

\* C13: a chunk of two or more paragraphs is at most chunk_size long, and
\* for consecutive chunks the earlier chunk, the separator and the first
\* paragraph of the later chunk together exceed chunk_size.
C13_GreedyBound ==
    \A p \in Procs :
       Chunked(p) =>
          LET cs == proc[p].value
              max_chars == proc[p].args.chunk_size
          IN  /\ \A i \in 1..Len(cs) :
                    Len(split_paragraphs(cs[i].text)) >= 2 => Len(cs[i].text) <= max_chars
              /\ \A i \in 1..(Len(cs) - 1) :
                    Len(cs[i].text) + 2 + Len(split_paragraphs(cs[i + 1].text)[1]) > max_chars

\* a chunk of two paragraphs that fills chunk_size exactly is closed because
\* the next paragraph does not fit
C13_Witness ==
    /\ Chunked(1)
    /\ Len(proc[1].value) = 2
    /\ Len(split_paragraphs(proc[1].value[1].text)) = 2
    /\ Len(proc[1].value[1].text) = proc[1].args.chunk_size
    /\ Len(split_paragraphs(proc[1].value[2].text)) = 1

(***************************************************************************)
(* Properties of the index data                                            *)
(***************************************************************************)
\* the ids are the positions counted from 0, no text is empty and the
\* stored count is the number of chunks
DenseIndex(data) ==
    /\ \A i \in 1..Len(data.chunks) :
          /\ data.chunks[i].id = i - 1
          /\ data.chunks[i].text # <<>>
    /\ data.meta.num_chunks = Len(data.chunks)

\* C14: the data a call of build_index is about to write, and every
\* complete index file, has the ids 0, 1, ..., n-1 in sequence order, no
\* empty chunk text, and n as its stored chunk count.
C14_DenseIds ==
    /\ \A p \in Procs : proc[p].pc \in {"B_open", "B_write"} => DenseIndex(proc[p].data)
    /\ (indexFile.exists /\ WellFormed(indexFile.content)) => DenseIndex(loads(indexFile.content))

\* the three chunks of a policy text are about to be written over a complete
\* index of another text, with ids 0, 1, 2 and count 3
C14_Witness ==
    /\ proc[1].pc = "B_write"
    /\ Len(proc[1].data.chunks) = 3
    /\ proc[1].data.chunks[3].id = 2
    /\ proc[1].data.meta.num_chunks = 3
    /\ proc[1].old_sha \notin {"", proc[1].data.meta.source_sha1}

(***************************************************************************)
(* Properties of embed_text                                                *)
(***************************************************************************)
Embedded(p) == proc[p].pc = "done" /\ proc[p].op = "embed_text" /\ proc[p].exc = "none"

\* the positions at which a token of the text starts
TokenStarts(text) ==
    {i \in 1..Len(text) : text[i] \notin Whitespace /\ (i = 1 \/ text[i - 1] \in Whitespace)}
\* the lower-cased token that starts at position i
TokenAt(text, i) ==
    LET end == CHOOSE j \in i..Len(text) :
                  /\ \A m \in i..j : text[m] \notin Whitespace
                  /\ j = Len(text) \/ text[j + 1] \in Whitespace
    IN  [m \in 1..(end - i + 1) |-> lower(text[i + m - 1])]

\* C15: embed_text returns 256 entries, and the entry of bucket b is the
\* number of lower-cased whitespace tokens of the text whose hash modulo 256
\* is b; so the entries sum to the token count and a text without tokens
\* gives the zero vector.
C15_HashedCounts ==
    \A p \in Procs :
       Embedded(p) =>
          LET text == proc[p].args.text
              vec  == proc[p].value
          IN  /\ Len(vec) = 256
              /\ \A b \in 0..255 :
                    vec[b + 1] = Cardinality({i \in TokenStarts(text) :
                                                 (Sha1Low16(TokenAt(text, i)) % 256) = b})

\* "Ba\nabbA  baba": three different tokens in bucket 153
C15_Witness ==
    /\ Embedded(1)
    /\ proc[1].args.text = <<"B", "a", "\n", "a", "b", "b", "A", " ", " ", "b", "a", "b", "a">>
    /\ proc[1].value[154] = 3


(***************************************************************************)
(* Properties of find_related_emails                                       *)
(***************************************************************************)
\* find_related_emails has returned a result to p
Found(p) == proc[p].pc = "done" /\ proc[p].op = "find_related_emails" /\ proc[p].exc = "none"
\* the lines of the corpus and of the result
CorpusLines == splitlines(emailsFile.content)
ResultLines(p) == splitlines(proc[p].value)
\* what the call of p was given, and the positions of the corpus lines that
\* match it
CallView(p) ==
    [lines         |-> CorpusLines,
     result        |-> ResultLines(p),
     name_lower    |-> lower_text(proc[p].args.employee_name),
     amount_str    |-> strip(proc[p].args.amount),
     desc_keywords |-> desc_keywords_of(proc[p].args.description),
     description   |-> proc[p].args.description]
WithMatching(in) ==
    [lines  |-> in.lines,
     result |-> in.result,
     idx    |-> {i \in 1..Len(in.lines) :
                    LineMatches(in.lines[i], in.name_lower, in.amount_str, in.desc_keywords)}]
View(p) == Force(WithMatching, CallView(p))
\* how many positions of idx there are up to position i
RankIn(idx, i) == Cardinality({m \in idx : m <= i})
CappedSubsequence(v) ==
    /\ Len(v.result) <= 80
    /\ Len(v.result) = Min(Cardinality(v.idx), 80)
    /\ \A i \in v.idx : RankIn(v.idx, i) <= 80 => v.result[RankIn(v.idx, i)] = v.lines[i]

\* C16: the result has at most 80 lines; it is the matching line occurrences
\* of the corpus in corpus order, each once, when at most 80 lines match,
\* and the first 80 of them when more match.
C16_CappedSubsequence == \A p \in Procs : Found(p) => Force(CappedSubsequence, View(p))

\* more than 80 lines of the corpus match and 80 lines were returned, the
\* last of them the 80th matching line
Over80(v) ==
    /\ Cardinality(v.idx) > 80
    /\ Len(v.result) = 80
    /\ \E i \in v.idx : RankIn(v.idx, i) = 80 /\ v.result[80] = v.lines[i]
C16_Witness == Found(1) /\ Force(Over80, View(1))

\* the three tiers: the subject in the line, whatever the case of letters;
\* the amount string (str(amount).strip()) in the line as written; a
\* surviving keyword of the description in the line, whatever the case
SubjectTier(v, ln) == v.name_lower # <<>> /\ Contains(v.name_lower, lower_text(ln))
AmountTier(v, ln) == v.amount_str # <<>> /\ Contains(v.amount_str, ln)
KeywordTier(v, ln) == \E kw \in Range(v.desc_keywords) : Contains(kw, lower_text(ln))
\* the tiers that apply to each corpus line
WithTiers(in) ==
    [lines  |-> in.lines,
     result |-> in.result,
     name_lower |-> in.name_lower, amount_str |-> in.amount_str, desc_keywords |-> in.desc_keywords,
     description |-> in.description,
     tiers  |-> [i \in 1..Len(in.lines) |->
                    [subject |-> SubjectTier(in, in.lines[i]),
                     amount  |-> AmountTier(in, in.lines[i]),
                     keyword |-> KeywordTier(in, in.lines[i])]]]
TierView(p) == Force(WithTiers, CallView(p))
Applies(v, i) == v.tiers[i].subject \/ v.tiers[i].amount \/ v.tiers[i].keyword
\* the corpus lines before line i to which a tier applies
AppliesBefore(v, i) == {m \in 1..(i - 1) : Applies(v, m)}
Included(v, i) == v.lines[i] \in Range(v.result)

InclusionRuleWithinCap(v) ==
    \A i \in 1..Len(v.lines) :
        /\ Applies(v, i) /\ Cardinality(AppliesBefore(v, i)) < 80 => Included(v, i)
        /\ ~Applies(v, i) => ~Included(v, i)
\* C17: a corpus line is in the result if a tier applies to it (the subject,
\* the amount string or a surviving keyword) and fewer than 80 lines to which
\* a tier applies precede it; a line to which no tier applies is never in
\* the result.
C17_InclusionRule == \A p \in Procs : Found(p) => Force(InclusionRuleWithinCap, TierView(p))

InclusionRule(v) == \A i \in 1..Len(v.lines) : Applies(v, i) <=> Included(v, i)
\* C17 as stated: a corpus line is in the result exactly when a tier applies
\* to it.
C17_InclusionRule_AsStated == \A p \in Procs : Found(p) => Force(InclusionRule, TierView(p))

\* a line that only the keyword tier takes, written in another case than the
\* keyword, was returned, and a line for no tier was left out
KeywordLineOnly(v) ==
    /\ \E i \in 1..Len(v.lines) :
          /\ v.tiers[i] = [subject |-> FALSE, amount |-> FALSE, keyword |-> TRUE]
          /\ \A kw \in Range(v.desc_keywords) : ~Contains(kw, v.lines[i])
          /\ Included(v, i)
    /\ \E i \in 1..Len(v.lines) : ~Applies(v, i) /\ ~Included(v, i)
C17_Witness == Found(1) /\ Force(KeywordLineOnly, TierView(1))

\* the description lower-cased, hyphens turned into spaces, split on white space
WithWords(in) ==
    [lines  |-> in.lines,
     result |-> in.result,
     name_lower |-> in.name_lower, amount_str |-> in.amount_str,
     words  |-> tokens(replace_hyphens(lower_text(in.description)))]
WordView(p) == Force(WithWords, CallView(p))
\* the words of at least n characters outside the stop-word set
Survivors(v, n) == {w \in Range(v.words) : Len(w) >= n /\ w \notin stop_words}
\* every returned line that neither the subject nor the amount brings in
\* holds a word of the description of at least n characters outside the
\* stop-word set
OnlySurvivorsMatch(v, n) ==
    \A i \in 1..Len(v.lines) :
        Included(v, i) /\ ~SubjectTier(v, v.lines[i]) /\ ~AmountTier(v, v.lines[i])
            => \E w \in Survivors(v, n) : Contains(w, lower_text(v.lines[i]))

\* C18: the description is lower-cased, its hyphens become spaces, it is
\* split on white space, and every word shorter than 4 characters or in the
\* stop-word set is dropped: a line that only tier 3 brings into the result
\* holds one of the other words.
C18_Keywords ==
    \A p \in Procs : Found(p) => Force(LAMBDA v : OnlySurvivorsMatch(v, 4), WordView(p))

\* C18 as stated: every word shorter than 5 characters or in the stop-word
\* set is dropped.
C18_Keywords_AsStated ==
    \A p \in Procs : Found(p) => Force(LAMBDA v : OnlySurvivorsMatch(v, 5), WordView(p))

\* the description holds a stop word, a hyphenated pair and a word of three
\* letters; a line with the stop word was left out and a line with the one
\* surviving word was returned
StopWordLeftOut(v) ==
    /\ Cardinality(Range(v.words)) > Cardinality(Survivors(v, 4))
    /\ \E i \in 1..Len(v.lines) :
          /\ ~Included(v, i)
          /\ \E w \in Range(v.words) : w \in stop_words /\ Contains(w, lower_text(v.lines[i]))
    /\ \E i \in 1..Len(v.lines) :
          /\ Included(v, i) /\ ~SubjectTier(v, v.lines[i]) /\ ~AmountTier(v, v.lines[i])
          /\ \E w \in Survivors(v, 4) : Contains(w, lower_text(v.lines[i]))
C18_Witness == Found(1) /\ Len(proc[1].args.description) > 5 /\ Force(StopWordLeftOut, WordView(1))

\* the returned lines are the lines that one of the tiers in the set on takes,
\* up to the cap
OnlyTiers(v, on) ==
    LET Takes(i) ==
            \/ "subject" \in on /\ v.tiers[i].subject
            \/ "amount" \in on /\ v.tiers[i].amount
            \/ "keyword" \in on /\ v.tiers[i].keyword
    IN  \A i \in 1..Len(v.lines) :
            /\ Included(v, i) => Takes(i)
            /\ Takes(i) /\ Cardinality({m \in 1..(i - 1) : Takes(m)}) < 80 => Included(v, i)
EmptyDisablesOwnTier(v) ==
    /\ v.name_lower = <<>> => OnlyTiers(v, {"amount", "keyword"})
    /\ v.amount_str = <<>> => OnlyTiers(v, {"subject", "keyword"})
    /\ v.desc_keywords = <<>> => OnlyTiers(v, {"subject", "amount"})
    /\ v.name_lower = <<>> /\ v.amount_str = <<>> /\ v.desc_keywords = <<>> => v.result = <<>>

\* C19: with an empty subject the result is what the amount and keyword tiers
\* take, with an empty amount what the subject and keyword tiers take, with
\* an empty keyword set what the subject and amount tiers take (each up to
\* the cap), and with all three empty the result is empty.
C19_EmptyDisablesOwnTier ==
    \A p \in Procs : Found(p) => Force(EmptyDisablesOwnTier, TierView(p))

\* no subject and a description without a surviving keyword: the line with
\* the amount was returned, the other line was not
AmountTierAlone(v) ==
    /\ v.name_lower = <<>> /\ v.desc_keywords = <<>> /\ v.description # <<>>
    /\ v.amount_str # <<>>
    /\ \E i \in 1..Len(v.lines) : Included(v, i)
    /\ \E i \in 1..Len(v.lines) : ~Included(v, i) /\ v.lines[i] # <<>>
C19_Witness == Found(1) /\ Force(AmountTierAlone, TierView(1))

(***************************************************************************)
(* Properties of clean_json                                                *)
(***************************************************************************)
\* the call clean_json(txt) of p is over
Cleaned(p) == proc[p].pc = "done" /\ proc[p].op = "clean_json"
\* the ways to read txt as a well-formed object between leading noise without
\* an opening brace and trailing noise
ReadingsOf(txt) ==
    {r \in [leading : LeadingNoise, object : Objects, trailing : TrailingNoise] :
        r.leading \o r.object \o r.trailing = txt}

\* C20: for every well-formed object O, every leading noise without an
\* opening brace and every trailing noise, clean_json(leading + O + trailing)
\* returns O, the value json.loads gives for O alone.
C20_NoiseTolerance ==
    \A p \in Procs :
        Cleaned(p) =>
            \A r \in ReadingsOf(proc[p].args.txt) :
                /\ proc[p].exc = "none"
                /\ proc[p].value = json_loads(r.object).out

\* the opening braces less the closing braces of s from position a to i
DepthAt(s, a, i) ==
    Cardinality({m \in a..i : s[m] = "{"}) - Cardinality({m \in a..i : s[m] = "}"})
HasBrace(s) == \E i \in 1..Len(s) : s[i] = "{"
FirstBrace(s) == CHOOSE i \in 1..Len(s) : s[i] = "{" /\ \A m \in 1..(i - 1) : s[m] # "{"
\* the depth is back at 0 somewhere after the first brace; the first such place
Balanced(s) == HasBrace(s) /\ \E i \in FirstBrace(s)..Len(s) : DepthAt(s, FirstBrace(s), i) = 0
FirstClose(s) ==
    CHOOSE i \in FirstBrace(s)..Len(s) :
        /\ DepthAt(s, FirstBrace(s), i) = 0
        /\ \A m \in FirstBrace(s)..(i - 1) : DepthAt(s, FirstBrace(s), m) # 0
BalancedPart(s) == SubSeq(s, FirstBrace(s), FirstClose(s))

FailureOutcomes(p, s) ==
    ~json_loads(s).ok =>
        /\ ~HasBrace(s) => proc[p].exc = "ValueError"
        /\ HasBrace(s) /\ ~Balanced(s) => proc[p].exc = "ValueError"
        /\ Balanced(s) /\ ~json_loads(BalancedPart(s)).ok => proc[p].exc = "ValueError"
        /\ proc[p].exc = "none" =>
              /\ Balanced(s)
              /\ json_loads(BalancedPart(s)).ok
              /\ proc[p].value = json_loads(BalancedPart(s)).out
\* C21: on a text that does not parse as a whole, clean_json raises ValueError
\* when the text has no opening brace, when the depth never returns to 0
\* after the first opening brace, and when the part from the first opening
\* brace to the first return to depth 0 does not parse; a value it returns is
\* the value of that part.
C21_FailureOutcomes ==
    \A p \in Procs : Cleaned(p) => Force(LAMBDA s : FailureOutcomes(p, s), strip(proc[p].args.txt))

\* the balanced part of a text with noise did not parse and ValueError was raised
C21_Witness ==
    /\ Cleaned(1) /\ proc[1].exc = "ValueError"
    /\ Balanced(strip(proc[1].args.txt))
    /\ FirstBrace(strip(proc[1].args.txt)) > 1
    /\ ~json_loads(BalancedPart(strip(proc[1].args.txt))).ok

\* llm_json got a reply from the generation call and is over
Answered(p) == proc[p].pc = "done" /\ proc[p].op = "llm_json" /\ proc[p].exc # "APIError"
\* clean_json fails on the stripped text s
ExtractionFails(s) ==
    /\ ~json_loads(s).ok
    /\ ~HasBrace(s) \/ ~Balanced(s) \/ ~json_loads(BalancedPart(s)).ok

NoPropagation(p, s) ==
    /\ proc[p].exc = "none"
    /\ ExtractionFails(s) => proc[p].value = <<"{", "}">>
\* C22: for every reply text, llm_json ends without an exception, and when
\* the extraction fails on the reply it returns the empty record {}.
C22_NoPropagation ==
    \A p \in Procs : Answered(p) => Force(LAMBDA s : NoPropagation(p, s), proc[p].txt)

\* a reply without any brace was answered with {}
C22_Witness ==
    /\ Answered(1)
    /\ proc[1].txt # <<>> /\ ~HasBrace(proc[1].txt) /\ ~json_loads(proc[1].txt).ok
    /\ proc[1].value = <<"{", "}">>

\* the value is a mapping: its text is that of an object
IsMapping(value) == value # <<>> /\ value[1] = "{"
\* C27: a value clean_json returns is a mapping, never a bare number, string,
\* literal or array, and so is every value llm_json returns.
C27_ReturnsMapping ==
    \A p \in Procs :
        /\ Cleaned(p) /\ proc[p].exc = "none" => IsMapping(proc[p].value)
        /\ Answered(p) /\ proc[p].exc = "none" => IsMapping(proc[p].value)

(***************************************************************************)
(* build_index while the source is rewritten                               *)
(***************************************************************************)
\* the index describes the source text d: its fingerprint is d's and its
\* chunks are the chunks of d
Describes(data, d) ==
    /\ data.meta.source_sha1 = file_sha1(d)
    /\ data.chunks = BuildChunks(d)

\* C28: the fingerprint persisted with the index is always the fingerprint of
\* the content the chunks were made from, also when the source is rewritten
\* while build_index runs: a complete index file describes one source text
C28_FingerprintDescribesContent ==
    (indexFile.exists /\ WellFormed(indexFile.content))
        => \E d \in Docs : Describes(loads(indexFile.content), d)

(***************************************************************************)
(* The batch over the transactions                                         *)
(***************************************************************************)
BatchOps == {"run_simple_fraud_check", "run_contextual_fraud_check"}
\* the batch call has come to its end over the rows it loaded
BatchDone == proc[1].pc = "done" /\ proc[1].at = "none" /\ proc[1].op \in BatchOps /\ transFile.exists
\* the items the trace has an event ev of, in the order of the events
ItemsOf(ev) ==
    LET Is(e) == e.ev = ev
        events == SelectSeq(trace, Is)
    IN  [j \in 1..Len(events) |-> events[j].i]
\* the rows at the positions outside F, in their order
RowsOutside(rows, F) ==
    LET Keep(j) == j \notin F
        kept == SelectSeq([j \in 1..Len(rows) |-> j], Keep)
    IN  [j \in 1..Len(kept) |-> rows[kept[j]]]
Isolated(rows, results, F) ==
    /\ proc[1].exc = "none"
    /\ ItemsOf("begin") = [j \in 1..Len(rows) |-> j]
    /\ Len(ItemsOf("skipped")) = Cardinality(F)
    /\ \A j \in 1..Len(rows) : j \in F <=> j \notin Range(ItemsOf("appended"))
    /\ Len(results) = Len(rows) - Cardinality(F)
    /\ [j \in 1..Len(results) |-> results[j].row] = RowsOutside(rows, F)

\* C23: a batch over N rows of which the rows in F raise does not raise, begins
\* every row once and in order, and returns N - |F| results, those of the
\* other rows in their order
C23_BatchIsolation ==
    BatchDone => Isolated(proc[1].rows, proc[1].results, Range(ItemsOf("skipped")))
\* a batch of two rows of which the first raised and the second did not
C23_Witness ==
    /\ BatchDone
    /\ Len(proc[1].rows) = 2
    /\ ItemsOf("skipped") = <<1>>
    /\ Len(proc[1].results) = 1

\* the results an item over row can give when it does not fail
ResultsOf(op, row) ==
    LET records == {r \in {llm_json(content).value : content \in BatchReplies} : is_dict(r)}
    IN  IF op = "run_simple_fraud_check"
        THEN {simple_result(row, r) : r \in records}
        ELSE {contextual_result(row, r) : r \in records} \cup {no_email_result(row)}
\* what the caller holds after the call is what a batch over some rows, every
\* item of which succeeded, returns
AsIfAllSucceeded(op, results) ==
    \E rows \in RowLists :
        /\ Len(rows) = Len(results)
        /\ \A j \in 1..Len(rows) : results[j].row = rows[j] /\ results[j] \in ResultsOf(op, rows[j])

\* C24: after a batch in which some items raised, what the caller holds records
\* the failures: it is not what a batch without failures returns
C24_FailuresRecorded ==
    (BatchDone /\ ItemsOf("skipped") # <<>>) => ~AsIfAllSucceeded(proc[1].op, proc[1].results)

(***************************************************************************)
(* The fields of an item's result                                          *)
(***************************************************************************)
\* the kinds of the fields: a flag is true or false, a text a string, an
\* evidence a list
IsFlag(value) == value \in {JsonTrue, JsonFalse}
IsText(value) == value[1] = "\""
IsEvidence(value) == value[1] = "["
\* the field of the record when it is there and of its kind, else the fallback
FlagOr(record, key) ==
    IF IsFlag(dict_get(record, key, JsonNull)) THEN dict_get(record, key, JsonNull) = JsonTrue ELSE FALSE
TextOr(record, key) ==
    IF IsText(dict_get(record, key, JsonNull)) THEN dict_get(record, key, JsonNull) ELSE EmptyString
EvidenceOr(record, key) ==
    IF IsEvidence(dict_get(record, key, JsonNull)) THEN dict_get(record, key, JsonNull) ELSE EmptyList
Defaulted(op, row, record) ==
    IF op = "run_simple_fraud_check"
    THEN [row |-> row, violation |-> FlagOr(record, violation), reason |-> TextOr(record, reason),
          policy_evidence |-> EvidenceOr(record, policy_evidence)]
    ELSE [row |-> row, fraud_suspected |-> FlagOr(record, fraud_suspected),
          justification |-> TextOr(record, justification),
          email_evidence |-> EvidenceOr(record, email_evidence),
          policy_evidence |-> EvidenceOr(record, policy_evidence)]
Last(seq) == seq[Len(seq)]
FieldsDefaulted ==
    (proc[1].pc = "T_result" /\ is_dict(proc[1].value))
        => Last(proc'[1].results) = Defaulted(proc[1].op, Row(1), proc[1].value)

\* C26: in the result of an item every field that the extracted record lacks,
\* or holds with a value of the wrong kind, is the fallback: false, the empty
\* string, the empty list
C26_FieldDefaults == [][FieldsDefaulted]_vars

(***************************************************************************)
(* check_transaction_with_context: the order of its calls                   *)
(***************************************************************************)
\* the events of item i, in order
EventsOf(i) ==
    LET Is(e) == e.i = i
    IN  SelectSeq(trace, Is)
\* the result appended for item i
ResultOf(i) ==
    LET appended == ItemsOf("appended")
    IN  proc[1].results[CHOOSE j \in 1..Len(appended) : appended[j] = i]
\* the evidence the linker finds for a row
EvidenceFor(row) ==
    find_related_emails(emailsFile.content, employee_of(row), amount_of(row), description_of(row))
\* without evidence the item ends after the linker, with the row not suspected
EndsUnsuspected(i, row, events) ==
    /\ \A n \in 1..Len(events) : events[n].ev \notin {"retrieve_relevant", "llm_json"}
    /\ Len(events) = 3 =>
          /\ events[3].ev = "appended"
          /\ ResultOf(i).row = row
          /\ ResultOf(i).fraud_suspected = FALSE
          /\ ResultOf(i).email_evidence = EmptyList
          /\ ResultOf(i).policy_evidence = EmptyList
\* with evidence the policy is retrieved with k = 2, and the generation is
\* asked only after that
RetrievesThenAsks(events) ==
    /\ Len(events) >= 3 => events[3] = Event("retrieve_relevant", events[1].i, 2)
    /\ \A n \in 1..Len(events) :
          /\ events[n].ev = "retrieve_relevant" => n = 3
          /\ events[n].ev = "llm_json" => n = 4
LinkerDecides(i, row, events) ==
    /\ Len(events) >= 2 => events[2].ev = "find_related_emails"
    /\ IF strip(EvidenceFor(row)) = <<>> THEN EndsUnsuspected(i, row, events)
       ELSE RetrievesThenAsks(events)

\* C29: in check_transaction_with_context, a row for which the linker returns
\* nothing or only white space is answered not suspected, with empty
\* evidences and the row itself, without a call of the retriever or of the
\* generation; a row with evidence has the retriever called with k = 2 before
\* the generation is called
C29_LinkerDecides ==
    (proc[1].op = "run_contextual_fraud_check" /\ emailsFile.exists)
        => \A i \in 1..Len(proc[1].rows) : LinkerDecides(i, proc[1].rows[i], EventsOf(i))
\* a batch of a row whose evidence is one space and a row with evidence, the
\* first answered after the linker and the second after the generation
C29_Witness ==
    /\ BatchDone
    /\ proc[1].op = "run_contextual_fraud_check"
    /\ emailsFile.exists
    /\ Len(proc[1].rows) = 2
    /\ EvidenceFor(proc[1].rows[1]) = <<" ">>
    /\ Len(EventsOf(1)) = 3
    /\ strip(EvidenceFor(proc[1].rows[2])) # <<>>
    /\ Len(EventsOf(2)) = 5
    /\ EventsOf(2)[4].ev = "llm_json"
    /\ Len(proc[1].results) = 2

(***************************************************************************)
(* check_conspiracy                                                        *)
(***************************************************************************)
\* the call is inside check_conspiracy, past the loading of the e-mails
InConspiracy == proc[1].op = "check_conspiracy" /\ proc[1].pc # "K_load" /\ emailsFile.exists
\* check_conspiracy has come to its end
ConspiracyEnded == InConspiracy /\ proc[1].pc = "done" /\ proc[1].at = "none"
\* check_conspiracy has returned its result
ConspiracyReturned == ConspiracyEnded /\ proc[1].exc = "none"
\* the records llm_json returned, in the order of the chunks done
Records ==
    LET Is(e) == e.ev = "record"
        answers == SelectSeq(trace, Is)
    IN  [j \in 1..Len(answers) |-> answers[j].record]
Flagged(record) == bool(dict_get(record, conspiracy, JsonNull))
RECURSIVE SnippetsOfFlagged(_, _)
SnippetsOfFlagged(records, j) ==
    IF j > Len(records) THEN <<>>
    ELSE (IF Flagged(records[j]) THEN iter(dict_get(records[j], evidence_snippets, EmptyList)) ELSE <<>>)
             \o SnippetsOfFlagged(records, j + 1)

\* C25: an exception of one chunk (the generation call failing, a reply that
\* is not a mapping) is caught, the chunk skipped and the others still
\* processed: check_conspiracy ends without exception, every chunk sent
C25_ChunkIsolation ==
    ConspiracyEnded =>
        /\ proc[1].exc = "none"
        /\ ItemsOf("llm_json") = [j \in 1..Len(proc[1].chunks) |-> j]

Aggregated(records) ==
    /\ \E m \in 0..Len(proc[1].chunks) : ItemsOf("llm_json") = [j \in 1..m |-> j]
    /\ Len(ItemsOf("llm_json")) - Len(records) \in {0, 1}
    /\ proc[1].chunks = chunk_text(emailsFile.content, MaxChars)
    /\ proc[1].flag <=> \E j \in 1..Len(records) : Flagged(records[j])
    /\ proc[1].results = SnippetsOfFlagged(records, 1)
    /\ ConspiracyReturned =>
          /\ Len(records) = Len(proc[1].chunks)
          /\ proc[1].result.conspiracy = proc[1].flag
          /\ proc[1].result.evidence_snippets = proc[1].results
FlagStays == (InConspiracy /\ proc[1].flag /\ proc'[1].op = "check_conspiracy") => proc'[1].flag

\* C30: check_conspiracy sends the chunks in order, one generation call each;
\* the flag starts false and is never reset; at the return it is true exactly
\* when the record of some chunk had a truthy conspiracy field, and the
\* evidence is made of the snippets of the flagged chunks alone, in chunk order
C30_Aggregation == [](InConspiracy => Aggregated(Records)) /\ [][FlagStays]_vars
\* three chunks: the first flagged with two snippets, the second not flagged
\* with a snippet, the third an empty record; the two snippets are returned
C30_Witness ==
    /\ ConspiracyReturned
    /\ Len(Records) = 3
    /\ Flagged(Records[1]) /\ ~Flagged(Records[2]) /\ Records[3] = EmptyDict
    /\ dict_get(Records[2], evidence_snippets, EmptyList) # EmptyList
    /\ proc[1].result.conspiracy
    /\ proc[1].result.evidence_snippets = <<Quote(<<"s">>), Quote(<<"t">>)>>

====
